---- MODULE Spec2Model ----
(***************************************************************************)
(* Algorithm Visualizer: trace generators (sorting, graph traversal and    *)
(* pathfinding) and the timer-driven playback loop of the React            *)
(* components.  Array and path indices inside Steps are 0-based as in the  *)
(* JavaScript source; TLA+ sequences are 1-based, so At/Put add one.       *)
(***************************************************************************)
EXTENDS Integers, Sequences, FiniteSets, TLC

\* ------------------------------------------------------------------------
\* Bounds of the model
\* ------------------------------------------------------------------------
MaxLen == 4
MaxVal == 3
MaxEdges == 3
MaxW == 3
MaxH == 1
Fuel == 40
AppMaxLen == 3
AppMaxEdges == 1
AppMaxVal == 1
MaxEdits == 1
MaxSearchLen == 8

\* ------------------------------------------------------------------------
\* Program constants
\* ------------------------------------------------------------------------
MIN_DELAY == 10
MAX_DELAY == 3000

\* call, ret: a generator called as a pure function and what it returned.
\* The rest is the mounted React component: its state, its refs, the
\* browser's pending timers, the render whose closure the timer chain runs
\* in, the Steps handed to the view since the last start, and whether the
\* last step was an unmount that cancelled a Running playback.  edits counts the control
\* edits made since the component's last playback; a session is followed
\* for at most MaxEdits of them.  notice is the window.alert raised by the
\* last event handler (NoNotice when it raised none).  refused is the
\* disabled load, clear or build control the user pressed in the last step
\* (NoRequest when the last step was anything else).  hung holds once an
\* event handler has entered a loop it never leaves: the page runs nothing
\* after that.
VARIABLES call, ret,
          activeVisualizer, state, isAnimating, speedSliderValue, explanation,
          animationsRef, currentAnimationIndexRef, timeoutIdRef, localArrayRef,
          timers, closure, applied, cancelled, edits, notice, refused, hung

pureVars == <<call, ret>>

appVars == <<activeVisualizer, state, isAnimating, speedSliderValue, explanation,
             animationsRef, currentAnimationIndexRef, timeoutIdRef, localArrayRef,
             timers, closure, applied, cancelled, edits, notice, refused, hung>>

vars == <<call, ret, activeVisualizer, state, isAnimating, speedSliderValue,
          explanation, animationsRef, currentAnimationIndexRef, timeoutIdRef,
          localArrayRef, timers, closure, applied, cancelled, edits, notice, refused,
          hung>>

\* ------------------------------------------------------------------------
\* JavaScript array helpers (0-based)
\* ------------------------------------------------------------------------
At(arr, i) == arr[i + 1]

Put(arr, i, x) == [arr EXCEPT ![i + 1] = x]

SwapAt(arr, i, j) == [arr EXCEPT ![i + 1] = arr[j + 1], ![j + 1] = arr[i + 1]]

\* An array element: the number v compared by < and >, and the input
\* position id it came from (its identity, which no comparison looks at).
Tag(A) == [i \in 1..Len(A) |-> [v |-> A[i], id |-> i]]

Untag(arr) == [i \in 1..Len(arr) |-> arr[i].v]

\* One animation Step: type, indices (0-based) and the values that the
\* narrative text interpolates.
Step(type, indices, vals) == [type |-> type, indices |-> indices, vals |-> vals]

Push(st, s) == [st EXCEPT !.an = Append(@, s)]

isArraySorted(array, sortOrder) ==
  \A i \in 2..Len(array) :
    IF sortOrder = "ascending" THEN ~(array[i - 1] > array[i])
                               ELSE ~(array[i - 1] < array[i])

\* ------------------------------------------------------------------------
\* bubbleSort
\* ------------------------------------------------------------------------
bubbleShouldSwap(sortOrder, a, b) ==
  IF sortOrder = "ascending" THEN a.v > b.v ELSE a.v < b.v

\* The inner loop of pass i runs while j < arr.length - i - 1
bubblePassEndFull(length, i) == length - 1

bubblePassEnd(length, i) == length - i - 1

RECURSIVE bubbleInner(_, _, _, _)
bubbleInner(st, sortOrder, i, j) ==
  IF j < bubblePassEnd(Len(st.arr), i)
  THEN LET a  == At(st.arr, j)
           b  == At(st.arr, j + 1)
           sw == bubbleShouldSwap(sortOrder, a, b)
           s1 == Push(st, Step("compare", <<j, j + 1>>, <<a, b>>))
           s2 == IF sw
                 THEN [arr |-> SwapAt(s1.arr, j, j + 1),
                       an  |-> Append(s1.an, Step("swap", <<j, j + 1>>, <<a, b>>))]
                 ELSE s1
           s3 == Push(s2, Step("reset", <<j, j + 1>>, <<>>))
       IN bubbleInner(s3, sortOrder, i, j + 1)
  ELSE st

RECURSIVE bubbleOuter(_, _, _)
bubbleOuter(st, sortOrder, i) ==
  IF i < Len(st.arr) - 1
  THEN LET s1 == bubbleInner(st, sortOrder, i, 0)
           p  == Len(s1.arr) - 1 - i
           s2 == Push(s1, Step("final_position", <<p>>, <<At(s1.arr, p)>>))
       IN bubbleOuter(s2, sortOrder, i + 1)
  ELSE st

bubbleSort(array, sortOrder) ==
  LET s == bubbleOuter([arr |-> array, an |-> <<>>], sortOrder, 0)
  IN [animations |-> Append(s.an, Step("final_position", <<0>>, <<>>)),
      finalArray |-> s.arr]

\* ------------------------------------------------------------------------
\* selectionSort
\* ------------------------------------------------------------------------
shouldUpdateMinIndex(sortOrder, a, b) ==
  IF sortOrder = "ascending" THEN a.v > b.v ELSE a.v < b.v

RECURSIVE selectionInner(_, _, _, _)
selectionInner(st, sortOrder, j, minOrMaxIndex) ==
  IF j < Len(st.arr)
  THEN LET a  == At(st.arr, j)
           m  == At(st.arr, minOrMaxIndex)
           up == shouldUpdateMinIndex(sortOrder, m, a)
           s1 == Push(st, Step("compare", <<j, minOrMaxIndex>>, <<a, m>>))
           s2 == IF up
                 THEN Push(s1, Step("mark_min_change", <<j, minOrMaxIndex>>, <<a>>))
                 ELSE s1
           nm == IF up THEN j ELSE minOrMaxIndex
           s3 == Push(s2, Step("reset", <<j, nm>>, <<>>))
       IN selectionInner(s3, sortOrder, j + 1, nm)
  ELSE [arr |-> st.arr, an |-> st.an, min |-> minOrMaxIndex]

RECURSIVE selectionOuter(_, _, _)
selectionOuter(st, sortOrder, i) ==
  IF i < Len(st.arr)
  THEN LET s1 == Push(st, Step("mark_min", <<i>>, <<At(st.arr, i)>>))
           s2 == selectionInner(s1, sortOrder, i + 1, i)
           s3 == IF s2.min # i
                 THEN [arr |-> SwapAt(s2.arr, i, s2.min),
                       an  |-> Append(s2.an, Step("swap", <<i, s2.min>>,
                                 <<At(s2.arr, i), At(s2.arr, s2.min)>>))]
                 ELSE [arr |-> s2.arr, an |-> s2.an]
           s4 == Push(s3, Step("final_position", <<i>>, <<At(s3.arr, i)>>))
       IN selectionOuter(s4, sortOrder, i + 1)
  ELSE st

selectionSort(array, sortOrder) ==
  LET s == selectionOuter([arr |-> array, an |-> <<>>], sortOrder, 0)
  IN [animations |-> Append(s.an, Step("final_position", <<Len(s.arr) - 1>>, <<>>)),
      finalArray |-> s.arr]

\* ------------------------------------------------------------------------
\* insertionSort
\* ------------------------------------------------------------------------
shouldShift(sortOrder, a, b) ==
  IF sortOrder = "ascending" THEN a.v > b.v ELSE a.v < b.v

RECURSIVE insertionWhile(_, _, _, _, _)
insertionWhile(st, sortOrder, i, j, key) ==
  IF j >= 0 /\ shouldShift(sortOrder, At(st.arr, j), key)
  THEN LET s1 == Push(st, Step("compare", <<j, i>>, <<key, At(st.arr, j)>>))
           s2 == Push(s1, Step("shift", <<j, j + 1>>, <<At(st.arr, j)>>))
           s3 == [arr |-> Put(s2.arr, j + 1, At(s2.arr, j)), an |-> s2.an]
       IN insertionWhile(s3, sortOrder, i, j - 1, key)
  ELSE [arr |-> st.arr, an |-> st.an, j |-> j]

RECURSIVE insertionOuter(_, _, _)
insertionOuter(st, sortOrder, i) ==
  IF i < Len(st.arr)
  THEN LET key == At(st.arr, i)
           s1  == Push(st, Step("mark_key", <<i>>, <<key>>))
           s2  == insertionWhile(s1, sortOrder, i, i - 1, key)
           s3  == [arr |-> Put(s2.arr, s2.j + 1, key), an |-> s2.an]
           s4  == Push(s3, Step("place", <<s2.j + 1, i>>, <<key>>))
           s5  == Push(s4, Step("reset_key", <<s2.j + 1, i>>, <<>>))
       IN insertionOuter(s5, sortOrder, i + 1)
  ELSE st

\* The closing loop shared by insertionSort, quickSort and mergeSort: one
\* final_position Step per index, then the closing final_position Step.
FinalPositions(arr) ==
  [i \in 1..Len(arr) |-> Step("final_position", <<i - 1>>, <<arr[i]>>)]
    \o <<Step("final_position", <<Len(arr) - 1>>, <<>>)>>

insertionSort(array, sortOrder) ==
  LET s == insertionOuter([arr |-> array, an |-> <<>>], sortOrder, 1)
  IN [animations |-> s.an \o FinalPositions(s.arr), finalArray |-> s.arr]

\* ------------------------------------------------------------------------
\* quickSort (Lomuto partition, pivot = last element of the range)
\* ------------------------------------------------------------------------
shouldPartition(sortOrder, pivot, element) ==
  IF sortOrder = "ascending" THEN element.v <= pivot.v ELSE element.v >= pivot.v

RECURSIVE partitionLoop(_, _, _, _, _, _)
partitionLoop(st, sortOrder, high, pivot, i, j) ==
  IF j < high
  THEN LET e  == At(st.arr, j)
           s1 == Push(st, Step("compare", <<j, high>>, <<e, pivot>>))
           take == shouldPartition(sortOrder, pivot, e)
           i2 == IF take THEN i + 1 ELSE i
           s2 == IF take
                 THEN [arr |-> SwapAt(s1.arr, i2, j),
                       an  |-> Append(s1.an, Step("swap", <<i2, j>>,
                                 <<At(s1.arr, i2), At(s1.arr, j)>>))]
                 ELSE s1
           s3 == Push(s2, Step("reset_compare", <<j, high>>, <<>>))
       IN partitionLoop(s3, sortOrder, high, pivot, i2, j + 1)
  ELSE [arr |-> st.arr, an |-> st.an, i |-> i]

partition(st, sortOrder, low, high) ==
  LET pivot == At(st.arr, high)
      s1 == Push(st, Step("mark_pivot", <<high>>, <<pivot>>))
      s2 == partitionLoop(s1, sortOrder, high, pivot, low - 1, low)
      s3 == [arr |-> SwapAt(s2.arr, s2.i + 1, high),
             an  |-> Append(s2.an, Step("swap", <<s2.i + 1, high>>, <<pivot>>))]
      s4 == Push(s3, Step("final_position", <<s2.i + 1>>, <<At(s3.arr, s2.i + 1)>>))
  IN [arr |-> s4.arr, an |-> s4.an, pi |-> s2.i + 1]

RECURSIVE quickSortRec(_, _, _, _)
quickSortRec(st, sortOrder, low, high) ==
  IF low < high
  THEN LET p  == partition(st, sortOrder, low, high)
           s1 == quickSortRec([arr |-> p.arr, an |-> p.an], sortOrder, low, p.pi - 1)
       IN quickSortRec(s1, sortOrder, p.pi + 1, high)
  ELSE st

quickSort(array, sortOrder) ==
  LET s == quickSortRec([arr |-> array, an |-> <<>>], sortOrder, 0, Len(array) - 1)
  IN [animations |-> s.an \o FinalPositions(s.arr), finalArray |-> s.arr]

\* ------------------------------------------------------------------------
\* mergeSort
\* ------------------------------------------------------------------------
mergeShouldSwap(sortOrder, a, b) ==
  IF sortOrder = "ascending" THEN a.v > b.v ELSE a.v < b.v

\* The first while loop of merge: the left element is taken only when the
\* right one is strictly beyond it, otherwise the right element is taken.
RECURSIVE mergeLoop(_, _, _, _, _, _, _)
mergeLoop(arr, acc, sortOrder, m, r, i, j) ==
  IF i <= m /\ j <= r
  THEN LET a1   == Append(acc.an, Step("compare", <<i, j>>, <<At(arr, i), At(arr, j)>>))
           left == mergeShouldSwap(sortOrder, At(arr, j), At(arr, i))
           t2   == Append(acc.temp, IF left THEN At(arr, i) ELSE At(arr, j))
           i2   == IF left THEN i + 1 ELSE i
           j2   == IF left THEN j ELSE j + 1
           a2   == Append(a1, Step("reset_compare", <<i2 - 1, j2 - 1>>, <<>>))
       IN mergeLoop(arr, [an |-> a2, temp |-> t2], sortOrder, m, r, i2, j2)
  ELSE [an |-> acc.an, temp |-> acc.temp, i |-> i, j |-> j]

\* The overwrite loop: Step indices are [i, temp[k]] in the source; the
\* carried element temp[k] is kept in vals and the position i in indices.
RECURSIVE mergeOverwrite(_, _, _, _, _)
mergeOverwrite(st, temp, r, i, k) ==
  IF i <= r
  THEN LET s1 == Push(st, Step("overwrite", <<i>>, <<temp[k + 1]>>))
       IN mergeOverwrite([arr |-> Put(s1.arr, i, temp[k + 1]), an |-> s1.an],
                         temp, r, i + 1, k + 1)
  ELSE st

merge(st, sortOrder, l, m, r) ==
  LET w    == mergeLoop(st.arr, [an |-> st.an, temp |-> <<>>], sortOrder, m, r, l, m + 1)
      rest == SubSeq(st.arr, w.i + 1, m + 1) \o SubSeq(st.arr, w.j + 1, r + 1)
  IN mergeOverwrite([arr |-> st.arr, an |-> w.an], w.temp \o rest, r, l, 0)

RECURSIVE mergeSortRec(_, _, _, _)
mergeSortRec(st, sortOrder, l, r) ==
  IF l < r
  THEN LET m  == l + ((r - l) \div 2)
           s1 == mergeSortRec(st, sortOrder, l, m)
           s2 == mergeSortRec(s1, sortOrder, m + 1, r)
       IN merge(s2, sortOrder, l, m, r)
  ELSE st

mergeSort(array, sortOrder) ==
  LET s == mergeSortRec([arr |-> array, an |-> <<>>], sortOrder, 0, Len(array) - 1)
  IN [animations |-> s.an \o FinalPositions(s.arr), finalArray |-> s.arr]

\* ------------------------------------------------------------------------
\* heapSort
\* ------------------------------------------------------------------------
shouldHeapifyInverted(sortOrder, a, b) ==
  IF sortOrder = "ascending" THEN a.v < b.v ELSE a.v > b.v

shouldHeapify(sortOrder, a, b) ==
  IF sortOrder = "ascending" THEN a.v > b.v ELSE a.v < b.v

RECURSIVE heapify(_, _, _, _)
heapify(st, sortOrder, n, i) ==
  LET l  == 2 * i + 1
      r  == 2 * i + 2
      g1 == IF l < n /\ shouldHeapify(sortOrder, At(st.arr, l), At(st.arr, i))
            THEN l ELSE i
      largest == IF r < n /\ shouldHeapify(sortOrder, At(st.arr, r), At(st.arr, g1))
                 THEN r ELSE g1
  IN IF largest # i
     THEN LET s1 == Push(st, Step("compare", <<i, largest>>,
                                   <<At(st.arr, i), At(st.arr, largest)>>))
              s2 == Push(s1, Step("swap", <<i, largest>>,
                                   <<At(st.arr, i), At(st.arr, largest)>>))
          IN heapify([arr |-> SwapAt(s2.arr, i, largest), an |-> s2.an],
                     sortOrder, n, largest)
     ELSE st

RECURSIVE heapBuild(_, _, _)
heapBuild(st, sortOrder, i) ==
  IF i >= 0
  THEN heapBuild(heapify(st, sortOrder, Len(st.arr), i), sortOrder, i - 1)
  ELSE st

RECURSIVE heapExtract(_, _, _)
heapExtract(st, sortOrder, i) ==
  IF i > 0
  THEN LET s1 == Push(st, Step("swap", <<0, i>>, <<At(st.arr, 0), At(st.arr, i)>>))
           s2 == [arr |-> SwapAt(s1.arr, 0, i), an |-> s1.an]
           s3 == Push(s2, Step("final_position", <<i>>, <<At(s2.arr, i)>>))
       IN heapExtract(heapify(s3, sortOrder, i, 0), sortOrder, i - 1)
  ELSE st

heapSort(array, sortOrder) ==
  LET s0 == heapBuild([arr |-> array, an |-> <<>>], sortOrder, (Len(array) \div 2) - 1)
      s  == heapExtract(s0, sortOrder, Len(array) - 1)
  IN [animations |-> Append(s.an, Step("final_position", <<0>>, <<At(s.arr, 0)>>)),
      finalArray |-> s.arr]

\* ------------------------------------------------------------------------
\* JavaScript numbers used by the pathfinders: integers, Infinity and NaN
\* (undefined + number).  Every comparison with NaN is false.
\* ------------------------------------------------------------------------
Infinity == 2000000000
NaN == -2000000000

JsAdd(a, b) ==
  IF a = NaN \/ b = NaN THEN NaN
  ELSE IF a = Infinity \/ b = Infinity THEN Infinity
  ELSE a + b

JsLt(a, b) == a # NaN /\ b # NaN /\ a < b

JsGt(a, b) == a # NaN /\ b # NaN /\ a > b

\* A Map with a possibly absent key: get gives undefined, which the
\* arithmetic and the comparisons of the pathfinders see as NaN.
MapSet(f, k, x) == [y \in (DOMAIN f) \cup {k} |-> IF y = k THEN x ELSE f[y]]

MapGetNum(f, k) == IF k \in DOMAIN f THEN f[k] ELSE NaN

\* undefined and the empty label are both falsy; a missing label is ""
Undefined == ""

MapGetLabel(f, k) == IF k \in DOMAIN f THEN f[k] ELSE Undefined

EmptyMap == [y \in {} |-> 0]

\* ------------------------------------------------------------------------
\* buildAdjacencyList: keys is the insertion order of the adjacency Map,
\* nbrs its values; edgeWeights is keyed by the ordered pair (u, v).
\* ------------------------------------------------------------------------
AdjEnsureFront(m, u) ==
  IF u \in DOMAIN m.nbrs THEN m
  ELSE [keys |-> <<u>> \o m.keys, nbrs |-> MapSet(m.nbrs, u, <<>>)]

AdjEnsure(m, u) ==
  IF u \in DOMAIN m.nbrs THEN m
  ELSE [keys |-> Append(m.keys, u), nbrs |-> MapSet(m.nbrs, u, <<>>)]

AdjPush(m, u, v) == [m EXCEPT !.nbrs[u] = Append(@, v)]

RECURSIVE addEdges(_, _, _)
addEdges(m, edges, k) ==
  IF k > Len(edges) THEN m
  ELSE LET u == edges[k][1]
           v == edges[k][2]
       IN addEdges(AdjPush(AdjPush(AdjEnsure(AdjEnsure(m, u), v), u, v), v, u),
                   edges, k + 1)

RECURSIVE addWeights(_, _, _)
addWeights(ew, weights, k) ==
  IF k > Len(weights) THEN ew
  ELSE LET u == weights[k][1]
           v == weights[k][2]
           w == weights[k][3]
       IN addWeights(MapSet(MapSet(ew, <<u, v>>, w), <<v, u>>, w), weights, k + 1)

EmptyAdjList == [keys |-> <<>>, nbrs |-> EmptyMap]

buildAdjacencyList(edges, weights) ==
  [newAdjList     |-> addEdges(EmptyAdjList, edges, 1),
   newEdgeWeights |-> addWeights(EmptyMap, weights, 1)]

\* ------------------------------------------------------------------------
\* Graph Steps: node, pathAdd are labels (Undefined when the Step has
\* none), path is the final path, newDistance the relaxed distance.
\* ------------------------------------------------------------------------
GStep(type, node, pathAdd, path, newDistance, text) ==
  [type |-> type, node |-> node, pathAdd |-> pathAdd, path |-> path,
   newDistance |-> newDistance, text |-> text]

NodeStep(type, node) == GStep(type, node, Undefined, <<>>, 0, "")

VisitStep(type, node) == GStep(type, node, node, <<>>, 0, "")

CompleteStep == GStep("complete", Undefined, Undefined, <<>>, 0, "complete.")

FinalPathStep(path) ==
  GStep("final_path", Undefined, Undefined, path, 0, "Shortest path found.")

\* ------------------------------------------------------------------------
\* bfs
\* ------------------------------------------------------------------------
RECURSIVE bfsNeighbours(_, _, _)
bfsNeighbours(st, ns, k) ==
  IF k > Len(ns) THEN st
  ELSE LET v == ns[k]
       IN IF v \notin st.visited
          THEN bfsNeighbours([queue   |-> Append(st.queue, v),
                              visited |-> st.visited \cup {v},
                              an      |-> Append(st.an, NodeStep("queue_node", v))],
                             ns, k + 1)
          ELSE bfsNeighbours(st, ns, k + 1)

RECURSIVE bfsLoop(_, _)
bfsLoop(adjList, st) ==
  IF Len(st.queue) > 0
  THEN LET u  == Head(st.queue)
           s1 == [queue |-> Tail(st.queue), visited |-> st.visited,
                  an |-> Append(st.an, VisitStep("visit_node", u))]
       IN IF u \in DOMAIN adjList.nbrs
          THEN bfsLoop(adjList, bfsNeighbours(s1, adjList.nbrs[u], 1))
          ELSE bfsLoop(adjList, s1)
  ELSE st

\* const visited = new Set([startNode])
bfsVisitedEmpty(startNode) == {}

bfsVisited(startNode) == {startNode}

bfs(adjList, startNode) ==
  LET s == bfsLoop(adjList, [queue |-> <<startNode>>, visited |-> bfsVisited(startNode),
                             an |-> <<VisitStep("visit_start", startNode)>>])
  IN [animations |-> Append(s.an, CompleteStep)]

\* ------------------------------------------------------------------------
\* dfs
\* ------------------------------------------------------------------------
\* The neighbour taken at step i of the forward walk over the list
dfsNeighbourAtForward(ns, i) == At(ns, Len(ns) - 1 - i)

\* const v = adjList.get(u)[i], i running from length - 1 down to 0
dfsNeighbourAt(ns, i) == At(ns, i)

RECURSIVE dfsNeighbours(_, _, _)
dfsNeighbours(st, ns, i) ==
  IF i < 0 THEN st
  ELSE LET v == dfsNeighbourAt(ns, i)
       IN IF v \notin st.visited
          THEN dfsNeighbours([stack   |-> Append(st.stack, v),
                              visited |-> st.visited \cup {v},
                              an      |-> Append(st.an, NodeStep("stack_node", v))],
                             ns, i - 1)
          ELSE dfsNeighbours(st, ns, i - 1)

RECURSIVE dfsLoop(_, _)
dfsLoop(adjList, st) ==
  IF Len(st.stack) > 0
  THEN LET u  == st.stack[Len(st.stack)]
           s1 == [stack |-> SubSeq(st.stack, 1, Len(st.stack) - 1),
                  visited |-> st.visited,
                  an |-> Append(st.an, VisitStep("visit_node", u))]
       IN IF u \in DOMAIN adjList.nbrs
          THEN dfsLoop(adjList, dfsNeighbours(s1, adjList.nbrs[u], Len(adjList.nbrs[u]) - 1))
          ELSE dfsLoop(adjList, s1)
  ELSE st

dfs(adjList, startNode) ==
  LET s == dfsLoop(adjList, [stack |-> <<startNode>>, visited |-> {startNode},
                             an |-> <<VisitStep("visit_start", startNode)>>])
  IN [animations |-> Append(s.an, CompleteStep)]

\* ------------------------------------------------------------------------
\* Priority queue (binary heap in an array, best = smallest priority):
\* enq sifts the new entry up, deq moves the last entry to the root and
\* sifts it down.  The comparator of both use sites is b.p - a.p.
\* ------------------------------------------------------------------------
PqCompare(h, a, b) == At(h, b).priority - At(h, a).priority

RECURSIVE pqSiftUp(_, _)
pqSiftUp(h, current) ==
  IF current > 0
  THEN LET parent == (current - 1) \div 2
       IN IF PqCompare(h, current, parent) <= 0 THEN h
          ELSE pqSiftUp(SwapAt(h, parent, current), parent)
  ELSE h

enq(h, e) == pqSiftUp(Append(h, e), Len(h))

RECURSIVE pqSiftDown(_, _)
pqSiftDown(h, current) ==
  LET size  == Len(h)
      left  == 2 * current + 1
      right == 2 * current + 2
      l1 == IF left < size /\ PqCompare(h, left, current) >= 0 THEN left ELSE current
      largest == IF right < size /\ PqCompare(h, right, l1) >= 0 THEN right ELSE l1
  IN IF largest = current THEN h
     ELSE pqSiftDown(SwapAt(h, largest, current), largest)

deq(h) ==
  LET first == h[1]
      last  == h[Len(h)]
      rest  == SubSeq(h, 1, Len(h) - 1)
  IN [first |-> first,
      rest  |-> IF Len(rest) = 0 THEN rest ELSE pqSiftDown(Put(rest, 0, last), 0)]

\* ------------------------------------------------------------------------
\* Path reconstruction of both pathfinders: walk previous back from endNode
\* while the current label is truthy.
\* ------------------------------------------------------------------------
RECURSIVE walkBack(_, _, _, _)
walkBack(previous, current, path, fuel) ==
  IF current = Undefined THEN [path |-> path, status |-> "ok"]
  ELSE IF fuel = 0 THEN [path |-> path, status |-> "diverged"]
  ELSE walkBack(previous, MapGetLabel(previous, current), <<current>> \o path, fuel - 1)

InitScores(adjList, startNode, x) ==
  MapSet([n \in DOMAIN adjList.nbrs |-> Infinity], startNode, x)

\* Record of one pq.deq() of a pathfinder: the entry taken, the best value
\* recorded for its node at that moment, and the Steps the loop body pushed
\* for it (st is the state after the body, before the state at the deq)
Dequeued(st, before, entry, best) ==
  [st EXCEPT !.deqs = Append(@, [node     |-> entry.node,
                                 priority |-> entry.priority,
                                 best     |-> best,
                                 steps    |-> SubSeq(st.an, Len(before.an) + 1, Len(st.an))])]

\* ------------------------------------------------------------------------
\* dijkstra
\* ------------------------------------------------------------------------
\* const newDistance = distances.get(u) + weight
NewDistanceHops(distance, weight) == JsAdd(distance, 1)

NewDistance(distance, weight) == JsAdd(distance, weight)

RECURSIVE dijkstraRelax(_, _, _, _, _)
dijkstraRelax(st, edgeWeights, u, ns, k) ==
  IF k > Len(ns) THEN st
  ELSE LET v == ns[k]
           weight == MapGetNum(edgeWeights, <<u, v>>)
           newDistance == NewDistance(MapGetNum(st.distances, u), weight)
       IN IF JsLt(newDistance, MapGetNum(st.distances, v))
          THEN dijkstraRelax(
                 [st EXCEPT !.distances = MapSet(@, v, newDistance),
                            !.previous  = MapSet(@, v, u),
                            !.pq = enq(@, [node |-> v, priority |-> newDistance]),
                            !.an = Append(@, GStep("update_distance", v, Undefined,
                                                   <<>>, newDistance, ""))],
                 edgeWeights, u, ns, k + 1)
          ELSE dijkstraRelax(st, edgeWeights, u, ns, k + 1)

\* A dequeued entry whose distance is worse than the recorded one is skipped
DijkstraStale(distance, best) == JsGt(distance, best)

RECURSIVE dijkstraLoop(_, _, _, _, _)
dijkstraLoop(adjList, edgeWeights, endNode, st, fuel) ==
  IF Len(st.pq) = 0 THEN st
  ELSE IF fuel = 0 THEN [st EXCEPT !.status = "diverged"]
  ELSE
    LET d  == deq(st.pq)
        u  == d.first.node
        distance == d.first.priority
        s1 == [st EXCEPT !.pq = d.rest]
        best == MapGetNum(s1.distances, u)
    IN IF DijkstraStale(distance, best)
       THEN dijkstraLoop(adjList, edgeWeights, endNode,
                         Dequeued(s1, s1, d.first, best), fuel - 1)
       ELSE LET s2 == [s1 EXCEPT !.an = Append(@, GStep("visit_dijkstra", u, Undefined,
                                                       <<>>, distance, ""))]
            IN IF u = endNode THEN Dequeued(s2, s1, d.first, best)
               ELSE IF u \notin DOMAIN adjList.nbrs
                    THEN [Dequeued(s2, s1, d.first, best) EXCEPT !.status = "threw"]
                    ELSE dijkstraLoop(adjList, edgeWeights, endNode,
                                      Dequeued(dijkstraRelax(s2, edgeWeights, u,
                                                             adjList.nbrs[u], 1),
                                               s1, d.first, best),
                                      fuel - 1)

\* The path handed on by dijkstra: whatever the walk back from endNode gives
DijkstraPath(previous, endNode, fuel) == walkBack(previous, endNode, <<>>, fuel)

dijkstra(adjList, edgeWeights, startNode, endNode, fuel) ==
  LET s == dijkstraLoop(adjList, edgeWeights, endNode,
             [distances |-> InitScores(adjList, startNode, 0),
              previous  |-> EmptyMap,
              pq        |-> enq(<<>>, [node |-> startNode, priority |-> 0]),
              an        |-> <<NodeStep("start_dijkstra", startNode)>>,
              deqs      |-> <<>>,
              status    |-> "ok"], fuel)
      w == DijkstraPath(s.previous, endNode, fuel)
  IN IF s.status # "ok"
     THEN [status |-> s.status, animations |-> <<>>, path |-> <<>>,
           distances |-> s.distances, deqs |-> s.deqs]
     ELSE IF w.status # "ok"
     THEN [status |-> w.status, animations |-> <<>>, path |-> <<>>,
           distances |-> s.distances, deqs |-> s.deqs]
     ELSE [status     |-> "ok",
           animations |-> s.an \o <<FinalPathStep(w.path), CompleteStep>>,
           path       |-> w.path,
           distances  |-> s.distances,
           deqs       |-> s.deqs]

\* ------------------------------------------------------------------------
\* aStar: heuristic[u] stands for heuristic(u, endNode); a node without a
\* display position has heuristic 0.  The heuristic of the component is a
\* distance in pixels, a double: g-scores stay whole, heuristic values and
\* f-scores are counted in HeuristicUnit parts of one unit of edge weight,
\* and one part also stands for one unit in the last place of a double.
\* A double h is kept as [exact, ulps]: exact is the real number that h
\* approximates, ulps[0] what rounding added to it when h was computed, and
\* ulps[j] what rounding adds to the exact sum when a whole number is added
\* to h and the sum lies j binades above h; where ulps has no entry,
\* rounding adds nothing.  A sum that stays in the binade of h, or falls
\* below it, is a multiple of the unit in the last place of h and so is
\* exact: it keeps ulps[0].
\* ------------------------------------------------------------------------
HeuristicUnit == 1000000

\* A double that holds its real number exactly (0, or a whole number)
Whole(x) == [exact |-> x, ulps |-> EmptyMap]

HeuristicOf(heuristic, u) == IF u \in DOMAIN heuristic THEN heuristic[u] ELSE Whole(0)

\* The binade of a number of HeuristicUnit parts that is at least one
\* whole: the exponent of its double
RECURSIVE Binade(_)
Binade(x) == IF x < 2 * HeuristicUnit THEN 0 ELSE 1 + Binade(x \div 2)

\* How many binades the sum of a whole number and the double h lies above
\* h, where sum is the exact sum and delta what rounding added to h.  A
\* number that is exactly a power of two on the exact circle lies in the
\* binade below when rounding took h below its real number (12 + 500 is
\* 512, 12 + 499.99999999999994 is not): one part less tells the binade
Level(sum, h, delta) ==
  IF h.exact <= 0 THEN 0
  ELSE LET ofSum == Binade(IF sum < 0
                           THEN (IF delta > 0 THEN -sum - 1 ELSE -sum)
                           ELSE (IF delta < 0 THEN sum - 1 ELSE sum))
           ofH   == Binade(IF delta < 0 THEN h.exact - 1 ELSE h.exact)
       IN IF ofSum <= ofH THEN 0 ELSE ofSum - ofH

\* tentativeGScore + heuristic(v, endNode): the sum of two doubles, rounded
\* to the nearest double; with tentativeGScore = 0 it is h itself
FScore(tentativeGScore, h) ==
  LET sum == tentativeGScore * HeuristicUnit + h.exact
      j   == Level(sum, h, IF 0 \in DOMAIN h.ulps THEN h.ulps[0] ELSE 0)
  IN sum + (IF j \in DOMAIN h.ulps THEN h.ulps[j] ELSE 0)

NoPathStep ==
  GStep("complete", Undefined, Undefined, <<>>, 0, "complete. No path found.")

RECURSIVE aStarRelax(_, _, _, _, _, _)
aStarRelax(st, edgeWeights, heuristic, u, ns, k) ==
  IF k > Len(ns) THEN st
  ELSE LET v == ns[k]
           weight == MapGetNum(edgeWeights, <<u, v>>)
           tentativeGScore == JsAdd(MapGetNum(st.gScores, u), weight)
           f == FScore(tentativeGScore, HeuristicOf(heuristic, v))
       IN IF JsLt(tentativeGScore, MapGetNum(st.gScores, v))
          THEN aStarRelax(
                 [st EXCEPT !.previous = MapSet(@, v, u),
                            !.gScores  = MapSet(@, v, tentativeGScore),
                            !.fScores  = MapSet(@, v, f),
                            !.pq = enq(@, [node |-> v, priority |-> f]),
                            !.enqs = Append(@, [node |-> v, gScore |-> tentativeGScore,
                                                pq |-> st.pq]),
                            !.an = Append(@, NodeStep("update_a_star", v))],
                 edgeWeights, heuristic, u, ns, k + 1)
          ELSE aStarRelax(st, edgeWeights, heuristic, u, ns, k + 1)

RECURSIVE aStarLoop(_, _, _, _, _, _)
aStarLoop(adjList, edgeWeights, endNode, heuristic, st, fuel) ==
  IF Len(st.pq) = 0 THEN st
  ELSE IF fuel = 0 THEN [st EXCEPT !.status = "diverged"]
  ELSE
    LET d  == deq(st.pq)
        u  == d.first.node
        s1 == [st EXCEPT !.pq = d.rest]
        best == MapGetNum(s1.fScores, u)
    IN IF u = endNode
       THEN Dequeued([s1 EXCEPT !.an = Append(@, NodeStep("found_path", u)),
                                !.status = "found"], s1, d.first, best)
       ELSE LET s2 == [s1 EXCEPT !.an = Append(@, NodeStep("visit_a_star", u))]
            IN IF u \notin DOMAIN adjList.nbrs
               THEN [Dequeued(s2, s1, d.first, best) EXCEPT !.status = "threw"]
               ELSE aStarLoop(adjList, edgeWeights, endNode, heuristic,
                              Dequeued(aStarRelax(s2, edgeWeights, heuristic, u,
                                                  adjList.nbrs[u], 1),
                                       s1, d.first, best),
                              fuel - 1)

\* The search of aStar up to the end of its while loop; enqs records, for
\* every entry given to pq.enq, its node, its g-score and the queue it was
\* added to
aStarSearch(adjList, edgeWeights, startNode, endNode, heuristic, fuel) ==
  LET h == FScore(0, HeuristicOf(heuristic, startNode))
  IN aStarLoop(adjList, edgeWeights, endNode, heuristic,
               [gScores  |-> InitScores(adjList, startNode, 0),
                fScores  |-> InitScores(adjList, startNode, h),
                previous |-> EmptyMap,
                pq       |-> enq(<<>>, [node |-> startNode, priority |-> h]),
                enqs     |-> <<[node |-> startNode, gScore |-> 0, pq |-> <<>>]>>,
                an       |-> <<NodeStep("start_a_star", startNode)>>,
                deqs     |-> <<>>,
                status   |-> "ok"], fuel)

aStar(adjList, edgeWeights, startNode, endNode, heuristic, fuel) ==
  LET s == aStarSearch(adjList, edgeWeights, startNode, endNode, heuristic, fuel)
      w == walkBack(s.previous, endNode, <<>>, fuel)
  IN IF s.status = "found" /\ w.status = "ok"
     THEN [status     |-> "ok",
           animations |-> s.an \o <<FinalPathStep(w.path), CompleteStep>>,
           path       |-> w.path,
           distances  |-> s.gScores,
           deqs       |-> s.deqs]
     ELSE IF s.status = "ok"
     THEN [status     |-> "ok",
           animations |-> Append(s.an, NoPathStep),
           path       |-> <<>>,
           distances  |-> s.gScores,
           deqs       |-> s.deqs]
     ELSE [status     |-> IF s.status = "found" THEN w.status ELSE s.status,
           animations |-> <<>>, path |-> <<>>, distances |-> s.gScores,
           deqs       |-> s.deqs]

\* ------------------------------------------------------------------------
\* runAnimationStep of the graph visualizer, final_path Step: the total
\* weight is the sum of edgeWeights over consecutive nodes of the path.
\* ------------------------------------------------------------------------
RECURSIVE PathWeightFrom(_, _, _, _)
PathWeightFrom(edgeWeights, finalPath, i, weight) ==
  IF i < Len(finalPath) - 1
  THEN PathWeightFrom(edgeWeights, finalPath, i + 1,
         JsAdd(weight, MapGetNum(edgeWeights, <<At(finalPath, i), At(finalPath, i + 1)>>)))
  ELSE weight

PathWeight(edgeWeights, finalPath) == PathWeightFrom(edgeWeights, finalPath, 0, 0)

\* ------------------------------------------------------------------------
\* linearSearch and binarySearch (arrays of plain numbers)
\* ------------------------------------------------------------------------
RECURSIVE linearLoop(_, _, _, _)
linearLoop(arr, target, i, an) ==
  IF i < Len(arr)
  THEN LET a1 == Append(an, Step("compare", <<i>>, <<At(arr, i), target>>))
       IN IF At(arr, i) = target
          THEN Append(a1, Step("found", <<i>>, <<target>>))
          ELSE linearLoop(arr, target, i + 1, a1)
  ELSE Append(an, Step("not_found", <<>>, <<target>>))

linearSearch(array, target) == [animations |-> linearLoop(array, target, 0, <<>>)]

\* mid = Math.floor((low + high) / 2)
binaryMidLow(low, high) == low

binaryMid(low, high) == (low + high) \div 2

RECURSIVE binaryLoop(_, _, _, _, _)
binaryLoop(arr, target, low, high, an) ==
  IF low <= high
  THEN LET mid == binaryMid(low, high)
           a1  == Append(an, Step("compare_range", <<low, high>>, <<>>))
           a2  == Append(a1, Step("compare", <<mid>>, <<At(arr, mid), target>>))
       IN IF At(arr, mid) = target
          THEN Append(a2, Step("found", <<mid>>, <<target>>))
          ELSE IF At(arr, mid) < target
          THEN binaryLoop(arr, target, mid + 1, high,
                          Append(a2, Step("adjust_range", <<mid, mid + 1>>, <<>>)))
          ELSE binaryLoop(arr, target, low, mid - 1,
                          Append(a2, Step("adjust_range", <<mid, mid - 1>>, <<>>)))
  ELSE Append(an, Step("not_found", <<>>, <<target>>))

binarySearch(array, target) ==
  [animations |-> binaryLoop(array, target, 0, Len(array) - 1, <<>>)]

\* Array.prototype.sort((a, b) => a - b) on numbers: insertion into an
\* ascending sequence (the values alone decide the result)
RECURSIVE SortAscending(_)
SortAscending(a) ==
  IF Len(a) <= 1 THEN a
  ELSE LET rest == SortAscending(Tail(a))
           x    == Head(a)
           k    == Cardinality({i \in 1..Len(rest) : rest[i] < x})
       IN SubSeq(rest, 1, k) \o <<x>> \o SubSeq(rest, k + 1, Len(rest))

\* ------------------------------------------------------------------------
\* Binary search tree: an arena of nodes {value, left, right}; 0 is null,
\* the root is node 1 and the null tree is the empty arena.
\* Tree and list Steps: node is a value (NaN when the Step has none),
\* pathAdd the value appended to the traversal path (NaN when absent).
\* ------------------------------------------------------------------------
TStep(type, node, pathAdd) == [type |-> type, node |-> node, pathAdd |-> pathAdd]

Node(value) == [value |-> value, left |-> 0, right |-> 0]

\* insert descends left when value < current.value, right otherwise
goesLeftInverted(value, nodeValue) == value > nodeValue

goesLeft(value, nodeValue) == value < nodeValue

RECURSIVE insertWalk(_, _, _)
insertWalk(tree, value, current) ==
  IF goesLeft(value, tree[current].value)
  THEN IF tree[current].left = 0
       THEN Append([tree EXCEPT ![current].left = Len(tree) + 1], Node(value))
       ELSE insertWalk(tree, value, tree[current].left)
  ELSE IF tree[current].right = 0
       THEN Append([tree EXCEPT ![current].right = Len(tree) + 1], Node(value))
       ELSE insertWalk(tree, value, tree[current].right)

insert(root, value) ==
  IF root = <<>> THEN <<Node(value)>> ELSE insertWalk(root, value, 1)

RECURSIVE insertAll(_, _, _)
insertAll(root, values, k) ==
  IF k > Len(values) THEN root ELSE insertAll(insert(root, values[k]), values, k + 1)

RECURSIVE searchWalk(_, _, _, _)
searchWalk(tree, value, current, an) ==
  IF current # 0
  THEN LET a1 == Append(an, TStep("highlight", tree[current].value, NaN))
       IN IF value = tree[current].value
          THEN Append(a1, TStep("found", tree[current].value, NaN))
          ELSE IF value < tree[current].value
          THEN searchWalk(tree, value, tree[current].left, a1)
          ELSE searchWalk(tree, value, tree[current].right, a1)
  ELSE Append(an, TStep("not_found", NaN, NaN))

search(root, value) == searchWalk(root, value, IF root = <<>> THEN 0 ELSE 1, <<>>)

VisitOf(tree, n) == TStep("visit", tree[n].value, tree[n].value)

RECURSIVE inOrderTraversal(_, _, _)
inOrderTraversal(tree, n, an) ==
  IF n # 0
  THEN inOrderTraversal(tree, tree[n].right,
         Append(inOrderTraversal(tree, tree[n].left, an), VisitOf(tree, n)))
  ELSE an

RECURSIVE preOrderTraversal(_, _, _)
preOrderTraversal(tree, n, an) ==
  IF n # 0
  THEN preOrderTraversal(tree, tree[n].right,
         preOrderTraversal(tree, tree[n].left, Append(an, VisitOf(tree, n))))
  ELSE an

RECURSIVE postOrderTraversal(_, _, _)
postOrderTraversal(tree, n, an) ==
  IF n # 0
  THEN Append(postOrderTraversal(tree, tree[n].right,
                postOrderTraversal(tree, tree[n].left, an)), VisitOf(tree, n))
  ELSE an

\* ------------------------------------------------------------------------
\* Linked list: an arena of nodes {value, next, prev} and the index of the
\* head; 0 is null.  A SinglyNode has no prev property: NoProp.
\* ------------------------------------------------------------------------
NoProp == -1

NullList == [nodes |-> <<>>, head |-> 0]

RECURSIVE listTail(_, _)
listTail(nodes, current) ==
  IF nodes[current].next # 0 THEN listTail(nodes, nodes[current].next) ELSE current

listInsert(list, value, listType) ==
  LET newNode == [value |-> value, next |-> 0,
                  prev |-> IF listType = "doublyLinkedList" THEN 0 ELSE NoProp]
      n == Len(list.nodes) + 1
  IN IF list.head = 0
     THEN [nodes |-> Append(list.nodes, newNode), head |-> n]
     ELSE LET current == listTail(list.nodes, list.head)
              linked  == Append([list.nodes EXCEPT ![current].next = n], newNode)
          IN [nodes |-> IF listType = "doublyLinkedList"
                        THEN [linked EXCEPT ![n].prev = current] ELSE linked,
              head  |-> list.head]

RECURSIVE listInsertAll(_, _, _, _)
listInsertAll(list, values, listType, k) ==
  IF k > Len(values) THEN list
  ELSE listInsertAll(listInsert(list, values[k], listType), values, listType, k + 1)

RECURSIVE searchListWalk(_, _, _, _)
searchListWalk(nodes, value, current, an) ==
  IF current # 0
  THEN LET a1 == Append(an, TStep("highlight", nodes[current].value, NaN))
       IN IF nodes[current].value = value
          THEN Append(a1, TStep("found", nodes[current].value, NaN))
          ELSE searchListWalk(nodes, value, nodes[current].next, a1)
  ELSE Append(an, TStep("not_found", NaN, NaN))

searchList(list, value) == searchListWalk(list.nodes, value, list.head, <<>>)

RECURSIVE deleteScan(_, _, _, _)
deleteScan(nodes, value, current, an) ==
  IF nodes[current].next # 0 /\ nodes[nodes[current].next].value # value
  THEN deleteScan(nodes, value, nodes[current].next,
                  Append(an, TStep("highlight", nodes[current].value, NaN)))
  ELSE [current |-> current, an |-> an]

\* current.next = current.next.next: the successor the predecessor is
\* relinked to
relinkTargetNull(nodes, nxt) == 0

relinkTarget(nodes, nxt) == nodes[nxt].next

deleteNode(list, value, listType) ==
  LET nodes == list.nodes
      head  == list.head
  IN IF head = 0
     THEN [list |-> list, animations |-> <<TStep("not_found", NaN, NaN)>>]
     ELSE IF nodes[head].value = value
     THEN LET newHead == nodes[head].next
          IN [list |-> [nodes |-> IF listType = "doublyLinkedList" /\ newHead # 0
                                  THEN [nodes EXCEPT ![newHead].prev = 0] ELSE nodes,
                        head  |-> newHead],
              animations |-> <<TStep("delete_head", value, NaN)>>]
     ELSE LET sc   == deleteScan(nodes, value, head, <<>>)
              cur  == sc.current
              nxt  == nodes[cur].next
          IN IF nxt # 0 /\ nodes[nxt].value = value
             THEN LET after == relinkTarget(nodes, nxt)
                      n1 == IF listType = "doublyLinkedList" /\ after # 0
                            THEN [nodes EXCEPT ![after].prev = cur] ELSE nodes
                  IN [list |-> [nodes |-> [n1 EXCEPT ![cur].next = after], head |-> head],
                      animations |-> Append(sc.an, TStep("delete", value, NaN))]
             ELSE [list |-> list,
                   animations |-> Append(sc.an, TStep("not_found", NaN, NaN))]

\* ------------------------------------------------------------------------
\* The React application: App mounts one visualizer at a time; switching
\* unmounts it (running its effect cleanup) and mounts a fresh one.
\* ------------------------------------------------------------------------
Visualizers == {"sorting", "searching", "graphs", "trees", "linkedList"}

Orders == {"ascending", "descending"}

SeqsOfLen(S, n) == [1..n -> S]

SeqRange(q) == {q[i] : i \in 1..Len(q)}

\* The speed slider ranges over MIN_DELAY..MAX_DELAY; 500 is its initial value
InitialSpeed == 500

Speeds == {InitialSpeed, MAX_DELAY}

\* The slider value taken as the delay itself
DelayNotInverted(speed) == speed

\* delay = MAX_DELAY - speedSliderValue + MIN_DELAY
Delay(speed) == MAX_DELAY - speed + MIN_DELAY

Message(text) == [kind |-> "message", text |-> text]

\* window.alert: no alert, the alert of handleSort, or the alert of
\* handleSearch
NoNotice == ""

AlreadySortedNotice == "Array is already sorted!"

\* No disabled control was pressed
NoRequest == ""

AutoSortNotice == "Binary search requires a sorted array. The array has been sorted for you."

\* setExplanation(text) of a Step: the Step's narrative.  The closing
\* final_position Step of bubble, selection, insertion, quick and merge
\* sort (the one whose text interpolates no value) carries the very text
\* of the completion message
StepText(animation) ==
  IF /\ animation.type = "final_position"
     /\ "vals" \in DOMAIN animation
     /\ animation.vals = <<>>
  THEN [kind |-> "message", text |-> "Array is fully sorted!"]
  ELSE [kind |-> "step", text |-> animation.type]

InitialState(viz) ==
  CASE viz = "sorting" ->
         [array |-> <<>>, sortOrder |-> "ascending", selectedAlgorithm |-> "bubbleSort"]
    [] viz = "searching" ->
         [array |-> <<>>, selectedAlgorithm |-> "linearSearch"]
    [] viz = "graphs" ->
         [startNode |-> "A", endNode |-> "",
          selectedAlgorithm |-> "bfs", adjList |-> EmptyAdjList,
          edgeWeights |-> EmptyMap, nodes |-> <<>>, visitedNodes |-> {},
          queuedNodes |-> {}, traversalPath |-> <<>>, finalPathNodes |-> <<>>,
          totalWeight |-> 0, vizSize |-> [width |-> 800, height |-> 600]]
    [] viz = "trees" ->
         [tree |-> <<>>, selectedTraversal |-> "inOrder", highlightedNodes |-> {},
          traversalPath |-> <<>>]
    [] viz = "linkedList" ->
         [head |-> NullList, listType |-> "singlyLinkedList", highlightedNode |-> NaN]

\* What getBoundingClientRect() measures of the container the graph is drawn
\* in: the size the component assumes before it measures, and another one
ContainerSizes ==
  {[width |-> 800, height |-> 600], [width |-> 300, height |-> 900]}

\* A component after its mount effects.  The graph component's layout
\* effect calls updateSize, which replaces vizSize by the measured size
MountedStates(viz) ==
  IF viz = "graphs"
  THEN {[InitialState(viz) EXCEPT !.vizSize = rect] : rect \in ContainerSizes}
  ELSE {InitialState(viz)}

NoClosure == [speedSliderValue |-> InitialSpeed, edgeWeights |-> EmptyMap]

Mounted(viz) ==
  /\ activeVisualizer = viz
  /\ state = InitialState(viz)
  /\ isAnimating = FALSE
  /\ speedSliderValue = InitialSpeed
  /\ explanation = Message("Welcome")
  /\ animationsRef = <<>>
  /\ currentAnimationIndexRef = 0
  /\ timeoutIdRef = 0
  /\ localArrayRef = <<>>
  /\ closure = NoClosure
  /\ applied = <<>>

InitApp ==
  /\ Mounted("sorting")
  /\ timers = {}
  /\ cancelled = FALSE
  /\ edits = 0
  /\ notice = NoNotice
  /\ refused = NoRequest
  /\ hung = FALSE
  /\ call = [fn |-> "none"]
  /\ ret = [fn |-> "none"]

\* ------------------------------------------------------------------------
\* Browser timers: setTimeout returns an id that no pending timer has;
\* clearTimeout removes the timer with that id, if it is still pending.
\* ------------------------------------------------------------------------
TimerIds(tms) == {t.id : t \in tms}

FreshId(tms) ==
  CHOOSE n \in 1..(Cardinality(tms) + 1) :
    /\ n \notin TimerIds(tms)
    /\ \A m \in 1..(n - 1) : m \in TimerIds(tms)

clearTimeout(tms, id) == {t \in tms : t.id # id}

\* The effect cleanup of every visualizer:
\* if (timeoutIdRef.current) clearTimeout(timeoutIdRef.current)
CleanupKeepsTimer(tms, ref) == tms

UnmountCleanup(tms, ref) == IF ref # 0 THEN clearTimeout(tms, ref) ELSE tms

\* ------------------------------------------------------------------------
\* runAnimationStep: what one Step does to the component
\* ------------------------------------------------------------------------
Truthy(x) == x # NaN /\ x # 0

\* splice(from, 1) then splice(to, 0, removed)
\* The element at from copied over the one at to
SpliceCopy(a, from, to) == Put(a, to, At(a, from))

\* newArray.splice(from, 1) followed by newArray.splice(to, 0, barToMove)
Splice(a, from, to) ==
  LET x    == At(a, from)
      rest == SubSeq(a, 1, from) \o SubSeq(a, from + 2, Len(a))
  IN SubSeq(rest, 1, to) \o <<x>> \o SubSeq(rest, to + 1, Len(rest))

\* new Set(finalPath): the labels of the path in first-seen order
RECURSIVE Dedupe(_, _)
Dedupe(q, acc) ==
  IF q = <<>> THEN acc
  ELSE Dedupe(Tail(q), IF Head(q) \in {acc[i] : i \in 1..Len(acc)}
                       THEN acc ELSE Append(acc, Head(q)))

Includes(q, x) == \E i \in 1..Len(q) : q[i] = x

ApplySortingStep(st, local, animation) ==
  LET type    == animation.type
      indices == animation.indices
  IN IF type = "swap"
     THEN LET l == SwapAt(local, indices[1], indices[2])
          IN [state |-> [st EXCEPT !.array = l], local |-> l]
     ELSE IF type = "shift"
     THEN LET l == Splice(local, indices[1], indices[2])
          IN [state |-> [st EXCEPT !.array = l], local |-> l]
     ELSE IF type = "overwrite"
     THEN LET l == Put(local, indices[1], animation.vals[1].v)
          IN [state |-> [st EXCEPT !.array = l], local |-> l]
     ELSE [state |-> st, local |-> local]

ApplyGraphStep(st, animation, edgeWeights) ==
  LET type == animation.type
      node == animation.node
  IN IF type \in {"visit_start", "visit_node", "start_dijkstra", "visit_dijkstra",
                  "visit_a_star"}
     THEN [st EXCEPT !.visitedNodes = @ \cup {node},
                     !.queuedNodes = @ \ {node},
                     !.traversalPath =
                        IF animation.pathAdd # Undefined /\ ~Includes(@, animation.pathAdd)
                        THEN Append(@, animation.pathAdd) ELSE @]
     ELSE IF type \in {"queue_node", "stack_node", "update_distance", "update_a_star"}
     THEN [st EXCEPT !.queuedNodes = @ \cup {node}]
     ELSE IF type = "final_path"
     THEN [st EXCEPT !.finalPathNodes = Dedupe(animation.path, <<>>),
                     !.totalWeight = PathWeight(edgeWeights, animation.path)]
     ELSE st

ApplyTreeStep(st, animation) ==
  IF animation.type \in {"highlight", "found", "visit"}
  THEN [st EXCEPT !.highlightedNodes = {animation.node},
                  !.traversalPath = IF Truthy(animation.pathAdd)
                                    THEN Append(@, animation.pathAdd) ELSE @]
  ELSE [st EXCEPT !.highlightedNodes = {}]

ApplyListStep(st, animation) ==
  IF animation.type \in {"highlight", "found"}
  THEN [st EXCEPT !.highlightedNode = animation.node]
  ELSE [st EXCEPT !.highlightedNode = NaN]

ApplyStep(viz, st, local, animation, cl) ==
  CASE viz = "sorting"    -> ApplySortingStep(st, local, animation)
    [] viz = "searching"  -> [state |-> st, local |-> local]
    [] viz = "graphs"     -> [state |-> ApplyGraphStep(st, animation, cl.edgeWeights),
                              local |-> local]
    [] viz = "trees"      -> [state |-> ApplyTreeStep(st, animation), local |-> local]
    [] viz = "linkedList" -> [state |-> ApplyListStep(st, animation), local |-> local]

\* The branch taken when the index has reached the end of the trace
CompleteMessage(viz) ==
  CASE viz = "sorting"    -> "Array is fully sorted!"
    [] viz = "searching"  -> "Search complete."
    [] viz = "graphs"     -> "Traversal complete."
    [] viz = "trees"      -> "Animation complete."
    [] viz = "linkedList" -> "Animation complete."

AtCompletion(viz, st) ==
  CASE viz = "trees"      -> [st EXCEPT !.highlightedNodes = {}]
    [] viz = "linkedList" -> [st EXCEPT !.highlightedNode = NaN]
    [] OTHER              -> st

\* The searching visualizer stops on its terminal Step without a further tick
StopsAt(viz, animation) ==
  viz = "searching" /\ animation.type \in {"found", "not_found"}

\* if (currentAnimationIndexRef.current >= animationsRef.current.length)
TraceExhausted(idx, anims) == idx >= Len(anims)

\* currentAnimationIndexRef.current++
SkipIndex(i) == i + 2

NextIndex(i) == i + 1

\* One call of runAnimationStep, from the start handler (synchronously) or
\* from a timer.  st, anims, idx, local, tms, ap, cl are the component's
\* state, refs, the pending timers, the applied Steps and the closure as
\* the caller left them.
RunAnimationStep(st, anims, idx, local, tms, ap, cl) ==
  LET viz == activeVisualizer
  IN /\ animationsRef' = anims
     /\ closure' = cl
     /\ edits' = 0
     /\ IF TraceExhausted(idx, anims)
        THEN /\ isAnimating' = FALSE
             /\ explanation' = Message(CompleteMessage(viz))
             /\ state' = AtCompletion(viz, st)
             /\ currentAnimationIndexRef' = idx
             /\ localArrayRef' = local
             /\ timers' = tms
             /\ timeoutIdRef' = timeoutIdRef
             /\ applied' = ap
        ELSE LET animation == anims[idx + 1]
                 r == ApplyStep(viz, st, local, animation, cl)
             IN /\ explanation' = StepText(animation)
                /\ state' = r.state
                /\ localArrayRef' = r.local
                /\ applied' = Append(ap, animation)
                /\ IF StopsAt(viz, animation)
                   THEN /\ isAnimating' = FALSE
                        /\ currentAnimationIndexRef' = idx
                        /\ timers' = tms
                        /\ timeoutIdRef' = timeoutIdRef
                   ELSE LET id == FreshId(tms)
                        IN /\ isAnimating' = TRUE
                           /\ currentAnimationIndexRef' = NextIndex(idx)
                           /\ timers' = tms \cup {[id |-> id, orphan |-> FALSE,
                                                   delay |-> Delay(cl.speedSliderValue)]}
                           /\ timeoutIdRef' = id

\* The render in which a start handler runs: runAnimationStep and every
\* timer it schedules read this render's speedSliderValue and edgeWeights.
ThisRender(edgeWeights) ==
  [speedSliderValue |-> speedSliderValue, edgeWeights |-> edgeWeights]

\* A control edit is followed while the component has not played yet, or
\* has been edited fewer than MaxEdits times since its last playback
EditAllowed == animationsRef = <<>> \/ edits < MaxEdits

CountEdit == edits' = IF animationsRef = <<>> THEN 0 ELSE edits + 1

\* A handler that returns early after a message, or not at all
OnlyExplain(text) ==
  /\ explanation' = Message(text)
  /\ UNCHANGED <<state, isAnimating, animationsRef, currentAnimationIndexRef,
                 timeoutIdRef, localArrayRef, timers, closure, applied, edits>>

OnlyState(st, text) ==
  /\ EditAllowed
  /\ CountEdit
  /\ state' = st
  /\ explanation' = Message(text)
  /\ UNCHANGED <<isAnimating, animationsRef, currentAnimationIndexRef,
                 timeoutIdRef, localArrayRef, timers, closure, applied>>

\* What every event handler of a mounted component leaves alone; n is the
\* alert it raises, never tells that it does not return
Handler(n, never) ==
  /\ ~hung
  /\ notice' = n
  /\ refused' = NoRequest
  /\ hung' = never
  /\ cancelled' = FALSE
  /\ UNCHANGED <<call, ret, activeVisualizer, speedSliderValue>>

Raise(n) == Handler(n, FALSE)

Frame == Raise(NoNotice)

\* A select or text control whose onChange sets one piece of state
EditFrame ==
  /\ ~hung
  /\ EditAllowed
  /\ CountEdit
  /\ UNCHANGED <<call, ret, activeVisualizer, isAnimating, speedSliderValue,
                 explanation, animationsRef, currentAnimationIndexRef, timeoutIdRef,
                 localArrayRef, timers, closure, applied, hung>>
  /\ cancelled' = FALSE
  /\ notice' = NoNotice
  /\ refused' = NoRequest

\* A timer fires.  A timer of an unmounted component runs against that
\* component's refs only; its chain is not followed further.
Tick ==
  \E t \in timers :
    /\ Frame
    /\ IF t.orphan
       THEN /\ timers' = timers \ {t}
            /\ UNCHANGED <<state, isAnimating, explanation, animationsRef,
                           currentAnimationIndexRef, timeoutIdRef, localArrayRef,
                           closure, applied, edits>>
       ELSE RunAnimationStep(state, animationsRef, currentAnimationIndexRef,
                             localArrayRef, timers \ {t}, applied, closure)

\* The speed slider is never disabled
SetSpeed ==
  \E v \in Speeds \ {speedSliderValue} :
    /\ ~hung
    /\ speedSliderValue' = v
    /\ UNCHANGED <<call, ret, activeVisualizer, state, isAnimating, explanation,
                   animationsRef, currentAnimationIndexRef, timeoutIdRef,
                   localArrayRef, timers, closure, applied, edits, hung>>
    /\ cancelled' = FALSE
    /\ notice' = NoNotice
    /\ refused' = NoRequest

\* App: setActiveVisualizer(viz).  The old component's cleanup runs, a timer
\* it leaves pending is orphaned, and the new component mounts.
SwitchVisualizer ==
  \E viz \in Visualizers \ {activeVisualizer} :
    /\ ~hung
    /\ timers' = {[t EXCEPT !.orphan = TRUE] : t \in UnmountCleanup(timers, timeoutIdRef)}
    /\ activeVisualizer' = viz
    /\ state' \in MountedStates(viz)
    /\ isAnimating' = FALSE
    /\ speedSliderValue' = InitialSpeed
    /\ explanation' = Message("Welcome")
    /\ animationsRef' = <<>>
    /\ currentAnimationIndexRef' = 0
    /\ timeoutIdRef' = 0
    /\ localArrayRef' = <<>>
    /\ closure' = NoClosure
    /\ applied' = <<>>
    /\ cancelled' = (isAnimating /\ \E t \in timers : ~t.orphan)
    /\ notice' = NoNotice
    /\ refused' = NoRequest
    /\ edits' = 0
    /\ UNCHANGED <<call, ret, hung>>

\* ------------------------------------------------------------------------
\* Sorting visualizer
\* ------------------------------------------------------------------------
SortAlgorithms ==
  {"bubbleSort", "selectionSort", "insertionSort", "quickSort", "mergeSort", "heapSort"}

RunSort(alg, array, sortOrder) ==
  CASE alg = "bubbleSort"    -> bubbleSort(Tag(array), sortOrder)
    [] alg = "selectionSort" -> selectionSort(Tag(array), sortOrder)
    [] alg = "insertionSort" -> insertionSort(Tag(array), sortOrder)
    [] alg = "quickSort"     -> quickSort(Tag(array), sortOrder)
    [] alg = "mergeSort"     -> mergeSort(Tag(array), sortOrder)
    [] alg = "heapSort"      -> heapSort(Tag(array), sortOrder)

\* What split(',').map(Number) can give: number lists of any length, or a
\* list with a non-numeric token (NaN)
ValueInputs ==
  UNION {SeqsOfLen(0..AppMaxVal, n) : n \in 1..AppMaxLen} \cup {<<1, NaN>>}

\* parseInt of a number field: a number, or NaN for an empty field
Values == (0..AppMaxVal) \cup {NaN}

HasNaN(values) == \E i \in 1..Len(values) : values[i] = NaN

ValidArray(newArray) ==
  /\ ~HasNaN(newArray)
  /\ Len(newArray) <= 50
  /\ Len(newArray) >= 2

\* Every control but the speed slider carries disabled={isSorting} (or its
\* counterpart); a disabled control delivers no event.
AlwaysEnabled(busy) == TRUE

ControlEnabled(busy) == ~busy

SortingLoadUserArray ==
  /\ activeVisualizer = "sorting" /\ ControlEnabled(isAnimating)
  /\ ~isAnimating
  /\ Frame
  /\ \E newArray \in ValueInputs :
       IF ValidArray(newArray)
       THEN OnlyState([state EXCEPT !.array = newArray], "User array loaded successfully.")
       ELSE OnlyExplain("Invalid array.")

SortingClearArray ==
  /\ activeVisualizer = "sorting" /\ ControlEnabled(isAnimating)
  /\ ~isAnimating
  /\ Frame
  /\ state' = [state EXCEPT !.array = <<>>]
  /\ explanation' = Message("Canvas is clear.")
  /\ timers' = IF timeoutIdRef # 0 THEN clearTimeout(timers, timeoutIdRef) ELSE timers
  /\ EditAllowed
  /\ CountEdit
  /\ UNCHANGED <<isAnimating, animationsRef, currentAnimationIndexRef,
                 timeoutIdRef, localArrayRef, closure, applied>>

SetSortOrder ==
  /\ activeVisualizer = "sorting" /\ ControlEnabled(isAnimating)
  /\ \E o \in Orders \ {state.sortOrder} : state' = [state EXCEPT !.sortOrder = o]
  /\ EditFrame

SetSortAlgorithm ==
  /\ activeVisualizer = "sorting" /\ ControlEnabled(isAnimating)
  /\ \E a \in SortAlgorithms \ {state.selectedAlgorithm} :
       state' = [state EXCEPT !.selectedAlgorithm = a]
  /\ EditFrame

HandleSort ==
  /\ activeVisualizer = "sorting" /\ ControlEnabled(isAnimating)
  /\ Raise(IF Len(state.array) > 0 /\ isArraySorted(state.array, state.sortOrder)
           THEN AlreadySortedNotice ELSE NoNotice)
  /\ IF Len(state.array) = 0
     THEN OnlyExplain("Please load an array first!")
     ELSE IF isArraySorted(state.array, state.sortOrder)
     THEN UNCHANGED <<state, isAnimating, explanation, animationsRef,
                      currentAnimationIndexRef, timeoutIdRef, localArrayRef, timers,
                      closure, applied, edits>>
     ELSE RunAnimationStep(state,
            RunSort(state.selectedAlgorithm, state.array, state.sortOrder).animations,
            0, state.array, timers, <<>>, ThisRender(EmptyMap))

\* ------------------------------------------------------------------------
\* Searching visualizer
\* ------------------------------------------------------------------------
SearchAlgorithms == {"linearSearch", "binarySearch"}

SearchingLoadUserArray ==
  /\ activeVisualizer = "searching" /\ ControlEnabled(isAnimating)
  /\ ~isAnimating
  /\ Frame
  /\ \E newArray \in ValueInputs :
       IF ValidArray(newArray)
       THEN IF state.selectedAlgorithm = "binarySearch"
            THEN OnlyState([state EXCEPT !.array = SortAscending(newArray)],
                           "Your array has been sorted automatically.")
            ELSE OnlyState([state EXCEPT !.array = newArray],
                           "User array loaded successfully.")
       ELSE OnlyExplain("Invalid array.")

SearchingClearArray ==
  /\ activeVisualizer = "searching" /\ ControlEnabled(isAnimating)
  /\ ~isAnimating
  /\ Frame
  /\ OnlyState([state EXCEPT !.array = <<>>], "Canvas is clear.")

SetSearchAlgorithm ==
  /\ activeVisualizer = "searching" /\ ControlEnabled(isAnimating)
  /\ \E a \in SearchAlgorithms \ {state.selectedAlgorithm} :
       state' = [state EXCEPT !.selectedAlgorithm = a]
  /\ EditFrame

\* arraysEqual(a, b): same length and the same element at every index
arraysEqualByReference(a, b) == FALSE

arraysEqual(a, b) == Len(a) = Len(b) /\ \A i \in 1..Len(a) : a[i] = b[i]

\* handleSearch, then animateSearching (which returns at once if isSearching).
\* For binarySearch an array that differs from its ascending sort is
\* replaced by it and the alert is raised, before the trace is generated.
SearchingHandleSearch ==
  /\ activeVisualizer = "searching" /\ ControlEnabled(isAnimating)
  /\ \E target \in Values :
       IF Len(state.array) = 0
       THEN Frame /\ OnlyExplain("Please load an array first!")
       ELSE IF target = NaN
       THEN Frame /\ OnlyExplain("Please enter a valid number to search for.")
       ELSE LET sortedArray == SortAscending(state.array)
                resort == /\ state.selectedAlgorithm = "binarySearch"
                          /\ ~arraysEqual(state.array, sortedArray)
                st == IF resort THEN [state EXCEPT !.array = sortedArray] ELSE state
                animations ==
                  IF state.selectedAlgorithm = "linearSearch"
                  THEN linearSearch(state.array, target).animations
                  ELSE binarySearch(sortedArray, target).animations
            IN /\ Raise(IF resort THEN AutoSortNotice ELSE NoNotice)
               /\ IF isAnimating
                  THEN /\ state' = st
                       /\ UNCHANGED <<isAnimating, explanation, animationsRef,
                                      currentAnimationIndexRef, timeoutIdRef,
                                      localArrayRef, timers, closure, applied, edits>>
                  ELSE RunAnimationStep(st, animations, 0, localArrayRef, timers, <<>>,
                                        ThisRender(EmptyMap))

\* ------------------------------------------------------------------------
\* Graph visualizer
\* ------------------------------------------------------------------------
GraphAlgorithms == {"bfs", "dfs", "dijkstra", "aStar"}

Labels == {"A", "B", "C"}

\* Non-negative weights, zero included
Weights == {0, MaxW}

\* The graph of the worked example (and the default text of the inputs):
\* A-B, A-C, B-D, C-E with weights 5, 2, 4, 8
ExampleEdges == <<<<"A", "B", 5>>, <<"A", "C", 2>>, <<"B", "D", 4>>, <<"C", "E", 8>>>>

EdgesOf(wl) == [k \in 1..Len(wl) |-> <<wl[k][1], wl[k][2]>>]

NodesOf(wl) == {wl[k][1] : k \in 1..Len(wl)} \cup {wl[k][2] : k \in 1..Len(wl)}

\* heuristic(u, endNode) for every u, in whole units: 0 at endNode itself
Heuristics(nodes, endNode) ==
  {h \in [nodes -> {Whole(k * HeuristicUnit) : k \in 0..MaxH}] :
     endNode \in nodes => h[endNode] = Whole(0)}

LabelSeq == <<"A", "B", "C">>

\* An undirected edge is written once, its endpoints in label order
\* (self-loops included): buildAdjacencyList stores both directions
EdgePairs ==
  {p \in (1..Len(LabelSeq)) \X (1..Len(LabelSeq)) : p[1] <= p[2]}

WeightedEdges == {<<LabelSeq[p[1]], LabelSeq[p[2]], w>> : p \in EdgePairs, w \in Weights}

\* The labels typed into the application's graph, start and target inputs
AppLabels == {"A", "B"}

\* parseInt keeps a sign: the weights typed into the application's weight
\* input
AppWeights == {-1, MaxW}

\* What the graph text parses to: the edges of the example (its default
\* text), or up to AppMaxEdges edges from A, to A itself or to B
GraphTexts ==
  {EdgesOf(ExampleEdges)} \cup
  UNION {SeqsOfLen({<<"A", v>> : v \in AppLabels}, n) : n \in 1..AppMaxEdges}

\* What the weight text parses to: the weights of the example (its default
\* text, which stays while the input is hidden), or one weight, for A-A or
\* for A-B, whatever the edges are
WeightTexts ==
  {ExampleEdges} \cup {<<<<"A", v, w>>>> : v \in AppLabels, w \in AppWeights}

\* The two text inputs are parsed independently of each other; malformed
\* stands for a text that split('-') or parseInt reject, built is what
\* buildAdjacencyList makes of the parsed edges and weights
GraphInputs ==
  {[malformed |-> FALSE, edges |-> el, weights |-> wl,
    built |-> buildAdjacencyList(el, wl)] :
     el \in GraphTexts, wl \in WeightTexts}
  \cup {[malformed |-> TRUE, edges |-> <<>>, weights |-> <<>>,
         built |-> buildAdjacencyList(<<>>, <<>>)]}

IsPathfinding(alg) == alg \in {"dijkstra", "aStar"}

\* setNodes gives the layout effect a new nodes array, so after the render
\* of either handler updateSize measures the container again and replaces
\* vizSize
Measured(st, rect) == [st EXCEPT !.vizSize = rect]

parseGraphInput ==
  /\ activeVisualizer = "graphs" /\ ControlEnabled(isAnimating)
  /\ ~isAnimating
  /\ Frame
  /\ \E g \in GraphInputs, rect \in ContainerSizes :
       IF g.malformed
       THEN OnlyState(Measured([state EXCEPT !.adjList = EmptyAdjList, !.nodes = <<>>],
                               rect),
                      "Invalid graph format.")
       ELSE LET b == g.built
            IN IF state.startNode # "" /\ ~Includes(b.newAdjList.keys, state.startNode)
               THEN OnlyState(Measured([state EXCEPT !.adjList = EmptyAdjList,
                                                     !.nodes = <<>>], rect),
                              "Start node not found in the graph.")
               ELSE OnlyState(Measured([state EXCEPT !.adjList = b.newAdjList,
                                                     !.edgeWeights = b.newEdgeWeights,
                                                     !.nodes = b.newAdjList.keys], rect),
                              "Graph loaded successfully.")

ClearGraph ==
  /\ activeVisualizer = "graphs" /\ ControlEnabled(isAnimating)
  /\ Frame
  /\ \E rect \in ContainerSizes :
       OnlyState(Measured([state EXCEPT !.adjList = EmptyAdjList, !.nodes = <<>>], rect),
                 "Graph cleared.")

SetGraphAlgorithm ==
  /\ activeVisualizer = "graphs" /\ ControlEnabled(isAnimating)
  /\ \E a \in GraphAlgorithms \ {state.selectedAlgorithm} :
       state' = [state EXCEPT !.selectedAlgorithm = a]
  /\ EditFrame

\* The start-node input (shown for dijkstra and aStar) or a click on a node
SetStartNode ==
  /\ activeVisualizer = "graphs" /\ ControlEnabled(isAnimating)
  /\ \E s \in (IF IsPathfinding(state.selectedAlgorithm) THEN AppLabels \cup {""} ELSE {})
              \cup SeqRange(state.nodes) :
       /\ s # state.startNode
       /\ state' = [state EXCEPT !.startNode = s]
  /\ EditFrame

SetEndNode ==
  /\ activeVisualizer = "graphs" /\ ControlEnabled(isAnimating)
  /\ IsPathfinding(state.selectedAlgorithm)
  /\ \E e \in (AppLabels \cup {""}) \ {state.endNode} :
       state' = [state EXCEPT !.endNode = e]
  /\ EditFrame

\* updateSize as the listener of the window's resize event: the container
\* is measured again and vizSize replaced (the node positions, which are
\* generated from nodes and vizSize, follow)
updateSize ==
  /\ activeVisualizer = "graphs"
  /\ Frame
  /\ \E rect \in ContainerSizes \ {state.vizSize} :
       state' = [state EXCEPT !.vizSize = rect]
  /\ UNCHANGED <<isAnimating, explanation, animationsRef, currentAnimationIndexRef,
                 timeoutIdRef, localArrayRef, timers, closure, applied, edits>>

\* Math.sin(Math.PI * d / n) in millionths, for graphs of up to six nodes
SinMicro(n, d) ==
  LET k == IF 2 * d > n THEN n - d ELSE d
  IN CASE k = 0         -> 0
       [] 2 * k = n     -> 1000000
       [] 3 * k = n     -> 866025
       [] 4 * k = n     -> 707107
       [] 5 * k = n     -> 587785
       [] 5 * k = 2 * n -> 951057
       [] 6 * k = n     -> 500000

\* Math.cos, Math.sin and Math.sqrt give implementation-approximated
\* doubles, so the last bits of a drawn distance, and with them the order of
\* two f-scores that are equal on the exact circle, depend on the engine.
\* A slot <<node, j>> names the ulps[j] of the distance taken from the
\* position of node; a rounding gives every node the ulps of its slots
Ulps == -2..2

Roundings(allNodes, slots) ==
  {[node \in SeqRange(allNodes) |->
      [j \in {slot[2] : slot \in {t \in slots : t[1] = node}} |-> ulps[<<node, j>>]]] :
     ulps \in [slots -> Ulps]}

\* The nodes are drawn on a circle about the centre of the container, the
\* i-th of n at the angle i * 2 * Math.PI / n: a position is kept as its
\* place i on that circle, with the circle's diameter (2 * radius)
generateNodePositions(allNodes, width, height, rounding) ==
  LET padding == 50
      effectiveWidth  == width - 2 * padding
      effectiveHeight == height - 2 * padding
      diameter == IF effectiveWidth < effectiveHeight
                  THEN effectiveWidth ELSE effectiveHeight
  IN [node \in SeqRange(allNodes) |->
        [i        |-> CHOOSE i \in 0..(Len(allNodes) - 1) : At(allNodes, i) = node,
         n        |-> Len(allNodes),
         diameter |-> IF diameter < 0 THEN -diameter ELSE diameter,
         rounding |-> rounding[node]]]

\* heuristic(u, v) of handleRunAlgorithm: the distance between the drawn
\* positions of u and v, a double: on the exact circle the chord
\* 2 * radius * sin(pi * d / n) between two places d apart, in HeuristicUnit
\* parts of a pixel; 0 when either has no position, and 0 between a
\* position and itself
heuristic(nodePositions, u, v) ==
  IF u \notin DOMAIN nodePositions \/ v \notin DOMAIN nodePositions THEN Whole(0)
  ELSE LET posU == nodePositions[u]
           posV == nodePositions[v]
           d    == IF posU.i < posV.i THEN posV.i - posU.i ELSE posU.i - posV.i
       IN IF d = 0 THEN Whole(0)
          ELSE [exact |-> posU.diameter * SinMicro(posU.n, d), ulps |-> posU.rounding]

\* heuristic(u, endNode) for every node u of a loaded graph.  nodePositions
\* holds the positions generated for the nodes of the last successful load
\* at the size in vizSize; those nodes are the keys of adjList as long as
\* adjList is not empty
DrawnHeuristic(keys, endNode, size, rounding) ==
  LET nodePositions == generateNodePositions(keys, size.width, size.height, rounding)
  IN [u \in SeqRange(keys) |-> heuristic(nodePositions, u, endNode)]

\* The slots of the entries that were in the queue together with exact sums
\* within the reach of rounding of each other: only there can rounding
\* change the outcome of a comparison.  An f-score found in the queue is
\* itself within that reach of its exact sum.  Where the binade of a sum
\* depends on the rounding of the distance, the slot of that rounding and
\* the slots of both binades count
NearTies(enqs, drawn) ==
  LET slots(node, sums) ==
        LET h == HeuristicOf(drawn, node)
            levels(sum) == {Level(sum, h, delta) : delta \in Ulps}
        IN IF h.exact = 0 THEN {}
           ELSE UNION {{<<node, j>> : j \in levels(sum)}
                       \cup (IF Cardinality(levels(sum)) > 1 THEN {<<node, 0>>} ELSE {}) :
                       sum \in sums}
      near(x, y) == \E a, b, c, d \in Ulps : x + a + b = y + c + d
      tied(k) ==
        LET h   == HeuristicOf(drawn, enqs[k].node)
            sum == enqs[k].gScore * HeuristicUnit + h.exact
            met == {i \in 1..Len(enqs[k].pq) :
                      /\ enqs[k].pq[i].node # enqs[k].node
                      /\ near(enqs[k].pq[i].priority, FScore(enqs[k].gScore, h))}
        IN IF met = {} THEN {}
           ELSE slots(enqs[k].node, {sum})
                \cup UNION {slots(enqs[k].pq[i].node,
                                  {enqs[k].pq[i].priority + a : a \in Ulps}) : i \in met}
  IN UNION {tied(k) : k \in 1..Len(enqs)}

\* The slots that some call of aStar, under some rounding of the slots
\* found so far, brings into a near tie
RECURSIVE RoundedSlots(_, _, _, _, _, _)
RoundedSlots(adjList, edgeWeights, startNode, endNode, size, slots) ==
  LET keys  == adjList.keys
      tried(drawn) ==
        NearTies(aStarSearch(adjList, edgeWeights, startNode, endNode, drawn,
                             Fuel).enqs, drawn)
      more  == UNION {tried(DrawnHeuristic(keys, endNode, size, rounding)) :
                        rounding \in Roundings(keys, slots)}
  IN IF ~Includes(keys, endNode) \/ more \subseteq slots THEN slots
     ELSE RoundedSlots(adjList, edgeWeights, startNode, endNode, size, slots \cup more)

\* The heuristics an engine can produce for one call of aStar, as far as
\* the call can tell them apart: two roundings that agree on every slot of
\* a near tie make every comparison of the call come out the same way, so
\* the slots without a near tie are left exact
DrawnHeuristics(adjList, edgeWeights, startNode, endNode, size) ==
  {DrawnHeuristic(adjList.keys, endNode, size, rounding) :
     rounding \in Roundings(adjList.keys,
                            RoundedSlots(adjList, edgeWeights, startNode, endNode,
                                         size, {}))}

ResetGraphView(st) ==
  [st EXCEPT !.visitedNodes = {}, !.queuedNodes = {}, !.traversalPath = <<>>,
             !.finalPathNodes = <<>>, !.totalWeight = 0]

\* handleRunAlgorithm once a generator has returned (status "ok") or thrown
\* ("threw": the handler is left with isTraversing set and nothing
\* scheduled); a generator that never returns ("diverged") leaves the
\* handler running, and none of its state updates is ever rendered
RunGenerated(res) ==
  IF res.status = "ok"
  THEN RunAnimationStep(ResetGraphView(state), res.animations, 0, localArrayRef,
                        timers, <<>>, ThisRender(state.edgeWeights))
  ELSE IF res.status = "threw"
  THEN /\ state' = ResetGraphView(state)
       /\ isAnimating' = TRUE
       /\ UNCHANGED <<explanation, animationsRef, currentAnimationIndexRef,
                      timeoutIdRef, localArrayRef, timers, closure, applied, edits>>
  ELSE UNCHANGED <<state, isAnimating, explanation, animationsRef,
                   currentAnimationIndexRef, timeoutIdRef, localArrayRef, timers,
                   closure, applied, edits>>

\* The generator call of handleRunAlgorithm
RunSelected(st, h) ==
  LET alg == st.selectedAlgorithm
  IN CASE alg = "bfs" ->
            [status |-> "ok", animations |-> bfs(st.adjList, st.startNode).animations]
       [] alg = "dfs" ->
            [status |-> "ok", animations |-> dfs(st.adjList, st.startNode).animations]
       [] alg = "dijkstra" ->
            dijkstra(st.adjList, st.edgeWeights, st.startNode, st.endNode, Fuel)
       [] alg = "aStar" ->
            aStar(st.adjList, st.edgeWeights, st.startNode, st.endNode, h, Fuel)

\* Only aStar reads the node positions
RunHeuristics(st) ==
  IF st.selectedAlgorithm = "aStar" /\ Len(st.adjList.keys) > 0 /\ st.endNode # ""
  THEN DrawnHeuristics(st.adjList, st.edgeWeights, st.startNode, st.endNode, st.vizSize)
  ELSE {EmptyMap}

TargetMessage(alg) ==
  IF alg = "dijkstra" THEN "Please enter a target node for Dijkstra's."
  ELSE "Please enter a target node for A*."

handleRunAlgorithm ==
  /\ activeVisualizer = "graphs" /\ ControlEnabled(isAnimating)
  /\ \E h \in RunHeuristics(state) :
       LET alg == state.selectedAlgorithm
           noGraph  == Len(state.adjList.keys) = 0
           noTarget == IsPathfinding(alg) /\ state.endNode = ""
           res      == RunSelected(state, h)
       IN /\ Handler(NoNotice, ~noGraph /\ ~noTarget /\ res.status = "diverged")
          /\ IF noGraph
             THEN OnlyExplain("Please load a graph first!")
             ELSE IF noTarget
             THEN /\ state' = ResetGraphView(state)
                  /\ explanation' = Message(TargetMessage(alg))
                  /\ isAnimating' = FALSE
                  /\ UNCHANGED <<animationsRef, currentAnimationIndexRef, timeoutIdRef,
                                 localArrayRef, timers, closure, applied, edits>>
             ELSE RunGenerated(res)

\* ------------------------------------------------------------------------
\* Tree visualizer
\* ------------------------------------------------------------------------
Traversals == {"inOrder", "preOrder", "postOrder"}

buildTree ==
  /\ activeVisualizer = "trees" /\ ControlEnabled(isAnimating)
  /\ ~isAnimating
  /\ Frame
  /\ \E values \in ValueInputs :
       IF HasNaN(values)
       THEN OnlyState([state EXCEPT !.tree = <<>>], "Invalid input.")
       ELSE OnlyState([state EXCEPT !.tree = insertAll(<<>>, values, 1)],
                      "Tree built successfully.")

SetTraversal ==
  /\ activeVisualizer = "trees" /\ ControlEnabled(isAnimating)
  /\ \E t \in Traversals \ {state.selectedTraversal} :
       state' = [state EXCEPT !.selectedTraversal = t]
  /\ EditFrame

ResetTreeView(st) == [st EXCEPT !.highlightedNodes = {}, !.traversalPath = <<>>]

TreeHandleSearch ==
  /\ activeVisualizer = "trees" /\ ControlEnabled(isAnimating \/ state.tree = <<>>)
  /\ ~(isAnimating \/ state.tree = <<>>)
  /\ Frame
  /\ \E value \in Values :
       IF value = NaN
       THEN OnlyExplain("Please enter a valid number to search for.")
       ELSE RunAnimationStep(ResetTreeView(state), search(state.tree, value), 0,
                             localArrayRef, timers, <<>>, ThisRender(EmptyMap))

Traverse(tree, selectedTraversal) ==
  CASE selectedTraversal = "inOrder"   -> inOrderTraversal(tree, 1, <<>>)
    [] selectedTraversal = "preOrder"  -> preOrderTraversal(tree, 1, <<>>)
    [] selectedTraversal = "postOrder" -> postOrderTraversal(tree, 1, <<>>)

handleTraversal ==
  /\ activeVisualizer = "trees" /\ ControlEnabled(isAnimating \/ state.tree = <<>>)
  /\ ~(isAnimating \/ state.tree = <<>>)
  /\ Frame
  /\ RunAnimationStep(ResetTreeView(state), Traverse(state.tree, state.selectedTraversal),
                      0, localArrayRef, timers, <<>>, ThisRender(EmptyMap))

\* ------------------------------------------------------------------------
\* Linked-list visualizer
\* ------------------------------------------------------------------------
ListTypes == {"singlyLinkedList", "doublyLinkedList"}

SetListType ==
  /\ activeVisualizer = "linkedList" /\ ControlEnabled(isAnimating)
  /\ \E t \in ListTypes \ {state.listType} : state' = [state EXCEPT !.listType = t]
  /\ EditFrame

buildList ==
  /\ activeVisualizer = "linkedList" /\ ControlEnabled(isAnimating)
  /\ ~isAnimating
  /\ Frame
  /\ \E values \in ValueInputs :
       IF HasNaN(values)
       THEN OnlyState([state EXCEPT !.head = NullList], "Invalid input.")
       ELSE OnlyState([state EXCEPT !.head =
                          listInsertAll(NullList, values, state.listType, 1)],
                      "Linked List built successfully.")

ListHandleSearch ==
  /\ activeVisualizer = "linkedList"
  /\ ControlEnabled(isAnimating \/ state.head.head = 0)
  /\ ~(isAnimating \/ state.head.head = 0)
  /\ Frame
  /\ \E value \in Values :
       IF value = NaN
       THEN OnlyExplain("Please enter a valid number to search for.")
       ELSE RunAnimationStep([state EXCEPT !.highlightedNode = NaN],
                             searchList(state.head, value), 0,
                             localArrayRef, timers, <<>>, ThisRender(EmptyMap))

handleDelete ==
  /\ activeVisualizer = "linkedList"
  /\ ControlEnabled(isAnimating \/ state.head.head = 0)
  /\ ~(isAnimating \/ state.head.head = 0)
  /\ Frame
  /\ \E value \in Values :
       IF value = NaN
       THEN OnlyExplain("Please enter a valid number to delete.")
       ELSE LET d == deleteNode(state.head, value, state.listType)
            IN RunAnimationStep([state EXCEPT !.highlightedNode = NaN, !.head = d.list],
                                d.animations, 0, localArrayRef, timers, <<>>,
                                ThisRender(EmptyMap))

\* ------------------------------------------------------------------------
\* Specification SpecApp: the application with its five visualizers
\* ------------------------------------------------------------------------
\* The load, clear and build buttons of a visualizer
StructuralControls(viz) ==
  CASE viz \in {"sorting", "searching"} -> {"loadUserArray", "clearArray"}
    [] viz = "graphs"     -> {"parseGraphInput", "clearGraph"}
    [] viz = "trees"      -> {"buildTree"}
    [] viz = "linkedList" -> {"buildList"}

\* The user presses a load, clear or build button that is disabled: the
\* browser delivers no click, so no handler runs
RefusedRequest ==
  /\ ~hung
  /\ ~ControlEnabled(isAnimating)
  /\ \E c \in StructuralControls(activeVisualizer) \ {refused} : refused' = c
  /\ UNCHANGED <<call, ret, activeVisualizer, state, isAnimating, speedSliderValue,
                 explanation, animationsRef, currentAnimationIndexRef, timeoutIdRef,
                 localArrayRef, timers, closure, applied, edits, notice, hung>>
  /\ cancelled' = FALSE

NextApp ==
  \/ Tick
  \/ RefusedRequest
  \/ SetSpeed
  \/ SwitchVisualizer
  \/ SortingLoadUserArray
  \/ SortingClearArray
  \/ SetSortOrder
  \/ SetSortAlgorithm
  \/ HandleSort
  \/ SearchingLoadUserArray
  \/ SearchingClearArray
  \/ SetSearchAlgorithm
  \/ SearchingHandleSearch
  \/ parseGraphInput
  \/ ClearGraph
  \/ SetGraphAlgorithm
  \/ SetStartNode
  \/ SetEndNode
  \/ updateSize
  \/ handleRunAlgorithm
  \/ buildTree
  \/ SetTraversal
  \/ TreeHandleSearch
  \/ handleTraversal
  \/ SetListType
  \/ buildList
  \/ ListHandleSearch
  \/ handleDelete

SpecApp == InitApp /\ [][NextApp]_vars

\* Timer fairness: a pending browser timer eventually fires
SpecAppLive == SpecApp /\ WF_vars(Tick)

\* C3: during a playback the Steps of the trace reach the view in trace
\* order, each once and one per call of runAnimationStep: the Steps applied
\* so far are always a prefix of the trace, and a call that applies a Step
\* applies exactly the next one of the same trace (the first one at start).
C3_OneStepPerTickInOrder ==
  [][/\ Len(applied') <= Len(animationsRef')
     /\ applied' = SubSeq(animationsRef', 1, Len(applied'))
     /\ (applied' # applied /\ activeVisualizer' = activeVisualizer) =>
          IF isAnimating
          THEN /\ animationsRef' = animationsRef
               /\ applied' = Append(applied, animationsRef[Len(applied) + 1])
          ELSE applied' = <<animationsRef'[1]>>]_vars

C3_Witness ==
  /\ activeVisualizer = "sorting"
  /\ isAnimating
  /\ Len(applied) = 3
  /\ Len(animationsRef) > 3
  /\ \E i \in 1..3 : applied[i].type = "swap"

\* C4: in every visualizer a playback that is not cancelled leaves Running
\* for Idle only in a step after which every Step of its trace has been
\* applied, and that step emits the completion signal (the completion
\* message of the visualizer).
C4_IdleOnlyAfterWholeTrace ==
  [][(isAnimating /\ ~isAnimating' /\ activeVisualizer' = activeVisualizer) =>
       /\ applied' = animationsRef'
       /\ animationsRef' = animationsRef
       /\ explanation' = Message(CompleteMessage(activeVisualizer))]_vars

\* C5: while a playback is Running no start request takes effect: the trace
\* is not replaced, the step index only advances by one Step at a time, and
\* at most one timer is pending at any time.
C5_StartWhileRunningIsNoOp ==
  [][/\ Cardinality(timers') <= 1
     /\ (isAnimating /\ activeVisualizer' = activeVisualizer) =>
          /\ animationsRef' = animationsRef
          /\ currentAnimationIndexRef'
               \in {currentAnimationIndexRef, currentAnimationIndexRef + 1}]_vars

C5_Witness ==
  /\ activeVisualizer = "graphs"
  /\ isAnimating
  /\ Cardinality(timers) = 1
  /\ currentAnimationIndexRef >= 2
  /\ currentAnimationIndexRef < Len(animationsRef)

\* C6: whenever a Step is applied and the next one is scheduled, the delay of
\* the new timer is MAX_DELAY - speedSliderValue + MIN_DELAY for the speed
\* the slider has at that moment.
C6_SpeedChangeSetsNextDelay ==
  [][(applied' # applied /\ isAnimating') =>
       \A t \in timers' : ~t.orphan => t.delay = Delay(speedSliderValue)]_vars

\* C7: unmounting the active visualizer releases its pending timer: no timer
\* of an unmounted component is ever pending, so no Step of a cancelled
\* playback is applied and no completion is reported for it.
C7_CancelReleasesTimer == \A t \in timers : ~t.orphan

C7_Witness ==
  /\ cancelled
  /\ timers = {}
  /\ applied = <<>>
  /\ ~isAnimating

\* b is a with its elements in ascending order
IsAscendingSortOf(b, a) ==
  /\ Len(b) = Len(a)
  /\ \A i \in 2..Len(b) : b[i - 1] <= b[i]
  /\ \A v \in SeqRange(a) \cup SeqRange(b) :
       Cardinality({i \in 1..Len(a) : a[i] = v}) =
       Cardinality({i \in 1..Len(b) : b[i] = v})

\* C13: a binary search started from Idle leaves the loaded array as its
\* ascending sort, plays exactly the trace binarySearch produces for that
\* sorted array, and raises the auto-sort alert if and only if the loaded
\* array was not ascending (an ascending array is left as it was).
C13_AutoSortNotice ==
  [][(/\ activeVisualizer = "searching" /\ activeVisualizer' = "searching"
      /\ state.selectedAlgorithm = "binarySearch"
      /\ ~isAnimating
      /\ applied' # applied) =>
        /\ IsAscendingSortOf(state'.array, state.array)
        /\ \E t \in Values \ {NaN} :
             animationsRef' = binarySearch(state'.array, t).animations
        /\ applied' = <<animationsRef'[1]>>
        /\ (notice' = AutoSortNotice) <=> ~isArraySorted(state.array, "ascending")
        /\ notice' \in {AutoSortNotice, NoNotice}
        /\ isArraySorted(state.array, "ascending") => state'.array = state.array]_vars

\* The alert has just been raised for a loaded array that was not ascending
C13_Witness ==
  /\ activeVisualizer = "searching"
  /\ notice = AutoSortNotice
  /\ state.array = <<0, 1, 1>>
  /\ isAnimating
  /\ Len(applied) = 1
  /\ applied[1].type = "compare_range"

\* The values of the visit Steps among the Steps applied so far
VisitValuesOf(ap) ==
  LET visits == SelectSeq(ap, LAMBDA a : a.type = "visit")
  IN [i \in 1..Len(visits) |-> visits[i].node]

\* C15: in the tree visualizer the displayed traversal path is, after every
\* tick, the sequence of values of the visit Steps applied so far (after the
\* whole playback: of all visit Steps of the trace), whatever numbers the
\* tree holds.
C15_TraversalPathIsVisitValues ==
  activeVisualizer = "trees" => state.traversalPath = VisitValuesOf(applied)

\* C18: trace generation for bfs, dfs, dijkstra or aStar is entered only
\* with a start label that is a node of the built graph, and every
\* generation that is entered returns its trace, whose playback then starts
\* (a run turns the graph visualizer Running only through generation).
C18_StartNodeValidatedBeforeGeneration ==
  [][(/\ activeVisualizer = "graphs" /\ activeVisualizer' = "graphs"
      /\ ~isAnimating /\ isAnimating') =>
        /\ Includes(state.adjList.keys, state.startNode)
        /\ animationsRef' # <<>>
        /\ applied' = <<animationsRef'[1]>>
        /\ timers' # {}]_vars

\* The structure a visualizer has loaded or built, and its cleared value
StructureOf(viz, st) ==
  CASE viz \in {"sorting", "searching"} -> st.array
    [] viz = "graphs"     -> <<st.adjList, st.nodes, st.edgeWeights>>
    [] viz = "trees"      -> st.tree
    [] viz = "linkedList" -> st.head

ClearedStructure(viz) ==
  CASE viz \in {"sorting", "searching"} -> <<>>
    [] viz = "graphs"     -> <<EmptyAdjList, <<>>, EmptyMap>>
    [] viz = "trees"      -> <<>>
    [] viz = "linkedList" -> NullList

FailureMessages ==
  {Message("Invalid array."), Message("Invalid graph format."),
   Message("Start node not found in the graph."), Message("Invalid input.")}

\* C19: a load or build that fails (its message reports the failure) leaves
\* the stored structure exactly as it was or entirely cleared; for graphs
\* the adjacency mapping, the node list and the weight mapping together.
C19_FailedLoadNeverPartial ==
  [][(explanation' \in FailureMessages /\ activeVisualizer' = activeVisualizer) =>
        \/ StructureOf(activeVisualizer, state') = StructureOf(activeVisualizer, state)
        \/ StructureOf(activeVisualizer, state') = ClearedStructure(activeVisualizer)]_vars

\* C26: in every graph a successful load has produced, no node occurs in
\* its own neighbour list (no self-loop) and no label occurs twice in one
\* neighbour list (no multi-edge).
C26_NoSelfLoopNoMultiEdge ==
  activeVisualizer = "graphs" =>
    \A u \in DOMAIN state.adjList.nbrs :
      /\ ~Includes(state.adjList.nbrs[u], u)
      /\ \A i, j \in 1..Len(state.adjList.nbrs[u]) :
           state.adjList.nbrs[u][i] = state.adjList.nbrs[u][j] => i = j

\* C27: while a playback is Running, a load, clear or build request (and
\* every other step that is not the playback's own) leaves the loaded
\* structure and the trace being replayed unchanged.
C27_NoStructuralChangeWhileRunning ==
  [][(/\ isAnimating /\ isAnimating'
      /\ activeVisualizer' = activeVisualizer
      /\ applied' = applied) =>
        /\ StructureOf(activeVisualizer, state') = StructureOf(activeVisualizer, state)
        /\ animationsRef' = animationsRef
        /\ currentAnimationIndexRef' = currentAnimationIndexRef]_vars

\* A clear request refused in the middle of a graph playback
C27_Witness ==
  /\ activeVisualizer = "graphs"
  /\ isAnimating
  /\ refused = "clearGraph"
  /\ state.adjList # EmptyAdjList
  /\ Len(applied) >= 2
  /\ currentAnimationIndexRef < Len(animationsRef)

\* C30: under timer fairness, every playback that a start request has put
\* in the Running state eventually returns the visualizer to Idle, where
\* its controls are enabled again.
C30_RunningLeadsToIdle ==
  isAnimating ~> (~isAnimating /\ ControlEnabled(isAnimating))




\* ------------------------------------------------------------------------
\* Specification SpecSort: the six sorting generators as pure functions
\* ------------------------------------------------------------------------
\* Element sequences a load accepts: at least two numbers
Arrays == UNION {SeqsOfLen(1..MaxVal, n) : n \in 2..MaxLen}

NoRet == [fn |-> "none"]

\* The application is mounted and left alone while a generator is called
AppIdle ==
  /\ Mounted("sorting") /\ timers = {} /\ cancelled = FALSE /\ edits = 0
  /\ notice = NoNotice /\ refused = NoRequest /\ hung = FALSE

InitSort ==
  /\ call \in {[fn |-> "input", array |-> A, sortOrder |-> o] : A \in Arrays, o \in Orders}
  /\ ret = NoRet
  /\ AppIdle

SortResult(fn, r) == [fn |-> fn, animations |-> r.animations, finalArray |-> r.finalArray]

CallBubbleSort ==
  /\ call.fn = "input"
  /\ call' = [call EXCEPT !.fn = "bubbleSort"]
  /\ ret' = SortResult("bubbleSort", bubbleSort(Tag(call.array), call.sortOrder))
  /\ UNCHANGED appVars

CallSelectionSort ==
  /\ call.fn = "input"
  /\ call' = [call EXCEPT !.fn = "selectionSort"]
  /\ ret' = SortResult("selectionSort", selectionSort(Tag(call.array), call.sortOrder))
  /\ UNCHANGED appVars

CallInsertionSort ==
  /\ call.fn = "input"
  /\ call' = [call EXCEPT !.fn = "insertionSort"]
  /\ ret' = SortResult("insertionSort", insertionSort(Tag(call.array), call.sortOrder))
  /\ UNCHANGED appVars

CallQuickSort ==
  /\ call.fn = "input"
  /\ call' = [call EXCEPT !.fn = "quickSort"]
  /\ ret' = SortResult("quickSort", quickSort(Tag(call.array), call.sortOrder))
  /\ UNCHANGED appVars

CallMergeSort ==
  /\ call.fn = "input"
  /\ call' = [call EXCEPT !.fn = "mergeSort"]
  /\ ret' = SortResult("mergeSort", mergeSort(Tag(call.array), call.sortOrder))
  /\ UNCHANGED appVars

CallHeapSort ==
  /\ call.fn = "input"
  /\ call' = [call EXCEPT !.fn = "heapSort"]
  /\ ret' = SortResult("heapSort", heapSort(Tag(call.array), call.sortOrder))
  /\ UNCHANGED appVars

NextSort ==
  \/ CallBubbleSort
  \/ CallSelectionSort
  \/ CallInsertionSort
  \/ CallQuickSort
  \/ CallMergeSort
  \/ CallHeapSort

SpecSort == InitSort /\ [][NextSort]_vars

SortFns == {"bubbleSort", "selectionSort", "insertionSort", "quickSort", "mergeSort", "heapSort"}

\* The final array holds every input element exactly once
IsPermutationOfInput(final, n) ==
  /\ Len(final) = n
  /\ \A i \in 1..n : \E k \in 1..n : final[k].id = i
  /\ \A k \in 1..n : final[k].v = call.array[final[k].id]

InOrder(final, sortOrder) ==
  \A k \in 2..Len(final) :
    IF sortOrder = "ascending" THEN final[k - 1].v <= final[k].v
                               ELSE final[k - 1].v >= final[k].v

\* C1: every sorting generator returns a finalArray that is a permutation of
\* its input in non-decreasing (ascending) or non-increasing (descending) order.
C1_SortedPermutation ==
  ret.fn \in SortFns =>
    /\ IsPermutationOfInput(ret.finalArray, Len(call.array))
    /\ InOrder(ret.finalArray, call.sortOrder)

C1_Witness ==
  /\ ret.fn = "heapSort"
  /\ call.sortOrder = "descending"
  /\ call.array = <<1, 3, 2, 3>>
  /\ Untag(ret.finalArray) = <<3, 3, 2, 1>>

\* C11: in a bubbleSort trace, once a final_position Step names index i, no
\* later compare or swap Step has i among its indices.
C11_BubbleFinalizedUntouched ==
  ret.fn = "bubbleSort" =>
    \A p, q \in 1..Len(ret.animations) :
      (/\ p < q
       /\ ret.animations[p].type = "final_position"
       /\ ret.animations[q].type \in {"compare", "swap"})
      => ret.animations[p].indices[1] \notin SeqRange(ret.animations[q].indices)

\* A trace of three passes in which a pass with a swap follows a
\* final_position Step
C11_Witness ==
  /\ ret.fn = "bubbleSort"
  /\ Len(call.array) = 4
  /\ \E p, q \in 1..Len(ret.animations) :
       /\ p < q
       /\ ret.animations[p].type = "final_position"
       /\ ret.animations[q].type = "swap"

\* C2: mergeSort and insertionSort are stable: of two equal values, the one
\* that started at the lower input position ends at the lower index.
C2_MergeAndInsertionStable ==
  ret.fn \in {"mergeSort", "insertionSort"} =>
    \A p, q \in 1..Len(ret.finalArray) :
      (p < q /\ ret.finalArray[p].v = ret.finalArray[q].v)
        => ret.finalArray[p].id < ret.finalArray[q].id

\* The array a playback started on the input shows after the first k Steps
\* of the trace
RECURSIVE Replay(_, _, _)
Replay(input, an, k) ==
  IF k = 0 THEN input
  ELSE ApplySortingStep([array |-> input], Replay(input, an, k - 1), an[k]).local

CountIn(q, x) == Cardinality({i \in 1..Len(q) : q[i] = x})

IsRearrangement(a, b) ==
  Len(a) = Len(b) /\ \A i \in 1..Len(a) : CountIn(a, a[i]) = CountIn(b, a[i])

\* C28: for each of the six generators, replaying the whole trace on a copy
\* of the input by the playback rules yields exactly the generator's
\* finalArray; and for the five generators without overwrite Steps the
\* replayed array is a permutation of the input after every prefix.
C28_ReplayReachesFinalArray ==
  ret.fn \in SortFns =>
    LET an == ret.animations
    IN /\ Replay(call.array, an, Len(an)) = Untag(ret.finalArray)
       /\ ret.fn # "mergeSort" =>
            /\ \A k \in 1..Len(an) : an[k].type # "overwrite"
            /\ \A k \in 0..Len(an) : IsRearrangement(Replay(call.array, an, k), call.array)

\* insertionSort of <<3, 2, 1>>: three shift Steps, each replayed as a move
C28_Witness ==
  /\ ret.fn = "insertionSort"
  /\ call.array = <<3, 2, 1>>
  /\ call.sortOrder = "ascending"
  /\ Cardinality({k \in 1..Len(ret.animations) : ret.animations[k].type = "shift"}) = 3
  /\ Replay(call.array, ret.animations, Len(ret.animations)) = <<1, 2, 3>>

\* C29: in every sorting trace, the two values a compare Step names in its
\* narrative are the values found at the Step's two indices in the array
\* obtained by replaying all earlier Steps on a copy of the input.
C29_CompareNarratesReplayedValues ==
  ret.fn \in SortFns =>
    LET an == ret.animations
    IN \A k \in 1..Len(an) :
         an[k].type = "compare" =>
           LET shown == Replay(call.array, an, k - 1)
               named == <<an[k].vals[1].v, an[k].vals[2].v>>
               found == <<At(shown, an[k].indices[1]), At(shown, an[k].indices[2])>>
           IN \/ named = found
              \/ named = <<found[2], found[1]>>

\* An edge list with a weight for every edge: a sequence of (u, v, w)
WeightedEdgeLists == UNION {SeqsOfLen(WeightedEdges, n) : n \in 1..MaxEdges}

\* A graph on which aStar from C to A gives B and E, at the same distance
\* from A on either side of it, the same g-score, with f-scores one binade
\* above that distance in a container of 800 by 600
TieEdges ==
  <<<<"A", "B", 9>>, <<"B", "C", 230>>, <<"C", "D", 500>>, <<"D", "E", 500>>,
    <<"C", "E", 230>>, <<"A", "E", 9>>>>

\* A graph on which aStar from A to C has B, at 100 pixels from C in a
\* container of 300 by 900, and C itself in the queue with the exact sums
\* 28 + 100 and 128: a power of two, so that the binade of the first sum
\* depends on the rounding of the distance
BinadeEdges ==
  <<<<"A", "B", 28>>, <<"A", "C", 128>>, <<"C", "D", 1>>, <<"D", "E", 1>>,
    <<"E", "F", 1>>>>

InitGraph ==
  /\ call \in {[fn |-> "input", weighted |-> wl] :
                 wl \in WeightedEdgeLists \cup {ExampleEdges, TieEdges, BinadeEdges}}
  /\ ret = NoRet
  /\ AppIdle

Built == buildAdjacencyList(EdgesOf(call.weighted), call.weighted)

\* The target labels tried: every label of the model, of the graph, and one
\* that no graph contains
AbsentLabel == "Z"

EndLabels(wl) == Labels \cup NodesOf(wl) \cup {AbsentLabel}

CallBfs ==
  /\ call.fn = "input"
  /\ \E s \in NodesOf(call.weighted) :
       /\ call' = [fn |-> "bfs", weighted |-> call.weighted, startNode |-> s]
       /\ ret' = [fn |-> "bfs", animations |-> bfs(Built.newAdjList, s).animations]
       /\ UNCHANGED appVars

CallDfs ==
  /\ call.fn = "input"
  /\ \E s \in NodesOf(call.weighted) :
       /\ call' = [fn |-> "dfs", weighted |-> call.weighted, startNode |-> s]
       /\ ret' = [fn |-> "dfs", animations |-> dfs(Built.newAdjList, s).animations]
       /\ UNCHANGED appVars

CallDijkstra ==
  /\ call.fn = "input"
  /\ \E s \in NodesOf(call.weighted), e \in EndLabels(call.weighted) :
       /\ call' = [fn |-> "dijkstra", weighted |-> call.weighted,
                   startNode |-> s, endNode |-> e]
       /\ ret' = [fn |-> "dijkstra",
                  res |-> dijkstra(Built.newAdjList, Built.newEdgeWeights, s, e, Fuel)]
       /\ UNCHANGED appVars

CallAStar ==
  /\ call.fn = "input"
  /\ \E s \in NodesOf(call.weighted), e \in EndLabels(call.weighted) :
     \E h \in Heuristics(NodesOf(call.weighted), e)
                \cup UNION {DrawnHeuristics(Built.newAdjList, Built.newEdgeWeights,
                                            s, e, rect) : rect \in ContainerSizes} :
       /\ call' = [fn |-> "aStar", weighted |-> call.weighted,
                   startNode |-> s, endNode |-> e, heuristic |-> h]
       /\ ret' = [fn |-> "aStar",
                  res |-> aStar(Built.newAdjList, Built.newEdgeWeights, s, e, h, Fuel)]
       /\ UNCHANGED appVars

NextGraph ==
  \/ CallBfs
  \/ CallDfs
  \/ CallDijkstra
  \/ CallAStar

SpecGraph == InitGraph /\ [][NextGraph]_vars

\* ------------------------------------------------------------------------
\* Reference notions over the edge list, independent of the generators
\* ------------------------------------------------------------------------
Adjacent(wl, u, v) ==
  \E k \in 1..Len(wl) : (wl[k][1] = u /\ wl[k][2] = v) \/ (wl[k][1] = v /\ wl[k][2] = u)

RECURSIVE ReachFrom(_, _)
ReachFrom(wl, S) ==
  LET N == S \cup {v \in NodesOf(wl) : \E u \in S : Adjacent(wl, u, v)}
  IN IF N = S THEN S ELSE ReachFrom(wl, N)

Reachable(wl, s) == ReachFrom(wl, {s})

\* Hop distance: the round in which a node joins the breadth-first layers
RECURSIVE HopLayers(_, _, _, _)
HopLayers(wl, seen, frontier, hops) ==
  LET next == {v \in NodesOf(wl) \ seen : \E u \in frontier : Adjacent(wl, u, v)}
      k    == 1 + Cardinality({n \in DOMAIN hops : TRUE})
  IN IF next = {} THEN hops
     ELSE HopLayers(wl, seen \cup next, next,
            [n \in (DOMAIN hops) \cup next |->
               IF n \in DOMAIN hops THEN hops[n]
               ELSE 1 + hops[CHOOSE u \in frontier : Adjacent(wl, u, n)]])

Hops(wl, s) == HopLayers(wl, {s}, {s}, [n \in {s} |-> 0])

\* The weight the last weight token for the pair {u, v} gives the edge
LastWeight(wl, u, v) ==
  LET ks == {k \in 1..Len(wl) : (wl[k][1] = u /\ wl[k][2] = v) \/ (wl[k][1] = v /\ wl[k][2] = u)}
  IN wl[CHOOSE k \in ks : \A j \in ks : j <= k][3]

SetMin(S) == CHOOSE x \in S : \A y \in S : x <= y

\* Minimum total weight from s to every node: |nodes| rounds of relaxation
RECURSIVE MinDistRounds(_, _, _)
MinDistRounds(wl, d, n) ==
  IF n = 0 THEN d
  ELSE MinDistRounds(wl,
         [v \in DOMAIN d |->
            SetMin({d[v]} \cup {d[u] + LastWeight(wl, u, v) :
                      u \in {x \in DOMAIN d : Adjacent(wl, x, v) /\ d[x] < Infinity}})],
         n - 1)

MinDist(wl, s) ==
  MinDistRounds(wl, [v \in NodesOf(wl) |-> IF v = s THEN 0 ELSE Infinity],
                Cardinality(NodesOf(wl)))

StepsOfType(an, t) == SelectSeq(an, LAMBDA x : x.type = t)

NodeSeq(steps) == [i \in 1..Len(steps) |-> steps[i].node]

NoDuplicates(q) == \A i, j \in 1..Len(q) : q[i] = q[j] => i = j

IsExample == call.weighted = ExampleEdges

\* C8: when the end node is not reachable from the start node, dijkstra and
\* aStar signal PathNotFound instead of returning a path value (empty,
\* partial or otherwise), and emit no final_path Step.
C8_PathNotFoundSignalled ==
  (/\ ret.fn \in {"dijkstra", "aStar"}
   /\ call.endNode \notin Reachable(call.weighted, call.startNode))
  => /\ ret.res.status # "ok"
     /\ StepsOfType(ret.res.animations, "final_path") = <<>>

\* C9: with a non-negative weight on every edge and the end node reachable,
\* dijkstra returns a path from start to end along graph edges whose total
\* weight, as summed at the final_path Step, is the minimum over all paths;
\* for the example graph from A to D the path is [A, B, D] with weight 9.
C9_DijkstraShortestPath ==
  (/\ ret.fn = "dijkstra"
   /\ call.endNode \in Reachable(call.weighted, call.startNode))
  => LET path == ret.res.path
         fp   == StepsOfType(ret.res.animations, "final_path")
     IN /\ ret.res.status = "ok"
        /\ Len(fp) = 1 /\ fp[1].path = path
        /\ Len(path) >= 1
        /\ path[1] = call.startNode
        /\ path[Len(path)] = call.endNode
        /\ \A i \in 1..(Len(path) - 1) : Adjacent(call.weighted, path[i], path[i + 1])
        /\ PathWeight(Built.newEdgeWeights, fp[1].path)
             = MinDist(call.weighted, call.startNode)[call.endNode]
        /\ (IsExample /\ call.startNode = "A" /\ call.endNode = "D")
             => /\ path = <<"A", "B", "D">>
                /\ PathWeight(Built.newEdgeWeights, fp[1].path) = 9

\* A direct edge from start to end exists, and the path through a third
\* node is returned because it weighs less
C9_Witness ==
  /\ ret.fn = "dijkstra"
  /\ Adjacent(call.weighted, call.startNode, call.endNode)
  /\ Len(ret.res.path) = 3
  /\ PathWeight(Built.newEdgeWeights, ret.res.path) = 0
  /\ LastWeight(call.weighted, call.startNode, call.endNode) = MaxW

\* C10: bfs emits exactly one visit_node Step per node reachable from start
\* and none for other nodes, in first-queued order with non-decreasing hop
\* distance; no node is queued twice; the example graph from A gives
\* [A, B, C, D, E].
C10_BfsVisitOrder ==
  ret.fn = "bfs" =>
    LET visited == NodeSeq(StepsOfType(ret.animations, "visit_node"))
        queued  == NodeSeq(StepsOfType(ret.animations, "queue_node"))
        hops    == Hops(call.weighted, call.startNode)
    IN /\ NoDuplicates(visited)
       /\ SeqRange(visited) = Reachable(call.weighted, call.startNode)
       /\ NoDuplicates(queued)
       /\ call.startNode \notin SeqRange(queued)
       /\ visited = <<call.startNode>> \o queued
       /\ \A i \in 1..(Len(visited) - 1) : hops[visited[i]] <= hops[visited[i + 1]]
       /\ (IsExample /\ call.startNode = "A") => visited = <<"A", "B", "C", "D", "E">>

C10_Witness ==
  /\ ret.fn = "bfs"
  /\ IsExample
  /\ call.startNode = "A"
  /\ NodeSeq(StepsOfType(ret.animations, "visit_node")) = <<"A", "B", "C", "D", "E">>

\* An entry taken from the queue is stale when its priority is worse than
\* the best value recorded for its node when it is taken
StaleEntry(d) == JsGt(d.priority, d.best)

\* C21: in both dijkstra and aStar an extracted entry whose priority is
\* worse than the best value currently recorded for its node is discarded:
\* the loop pushes no Step for it (no visit, no relaxation)
C21_StaleEntriesDiscarded ==
  ret.fn \in {"dijkstra", "aStar"} =>
    \A k \in 1..Len(ret.res.deqs) :
      StaleEntry(ret.res.deqs[k]) => ret.res.deqs[k].steps = <<>>

\* The indices of the Steps of kind t that name node n
StepIndices(an, t, n) == {k \in 1..Len(an) : an[k].type = t /\ an[k].node = n}

\* The stack_node Steps pushed while the node visited at index k is
\* processed: those after k with no visit_node Step in between
PushedDuring(an, k) ==
  {j \in (k + 1)..Len(an) :
     /\ an[j].type = "stack_node"
     /\ \A i \in (k + 1)..j : an[i].type # "visit_node"}

\* The position of the neighbour list a label is pushed from: the walk is
\* backwards and marks at the push, so it is the label's last position
LastPosition(ns, v) ==
  CHOOSE i \in 1..Len(ns) : ns[i] = v /\ \A j \in 1..Len(ns) : ns[j] = v => j <= i

\* C22: dfs emits exactly one visit_node Step per node reachable from the
\* start and none for any other node; every node is pushed at most once
\* (the start never); and the neighbours pushed while one node is processed
\* are popped, relative to each other, in the order of the node's
\* adjacency list.
C22_DfsVisitsReachableInAdjacencyOrder ==
  ret.fn = "dfs" =>
    LET an   == ret.animations
        adj  == Built.newAdjList.nbrs
        seen == Reachable(call.weighted, call.startNode)
    IN /\ \A n \in NodesOf(call.weighted) :
            Cardinality(StepIndices(an, "visit_node", n)) = IF n \in seen THEN 1 ELSE 0
       /\ \A k \in 1..Len(an) :
            an[k].type = "visit_node" => an[k].node \in NodesOf(call.weighted)
       /\ \A n \in NodesOf(call.weighted) :
            Cardinality(StepIndices(an, "stack_node", n))
              <= (IF n = call.startNode THEN 0 ELSE 1)
       /\ \A k \in 1..Len(an) :
            an[k].type = "visit_node" =>
              \A j1, j2 \in PushedDuring(an, k) :
                LET ns == adj[an[k].node]
                    v1 == an[j1].node
                    v2 == an[j2].node
                IN /\ Includes(ns, v1)
                   /\ LastPosition(ns, v1) < LastPosition(ns, v2) =>
                        \A p1 \in StepIndices(an, "visit_node", v1),
                           p2 \in StepIndices(an, "visit_node", v2) : p1 < p2

\* dfs on the example graph from A: A pushes C then B, and B (with its
\* subtree D) is visited before C
C22_Witness ==
  /\ ret.fn = "dfs"
  /\ IsExample
  /\ call.startNode = "A"
  /\ NodeSeq(StepsOfType(ret.animations, "stack_node")) = <<"C", "B", "D", "E">>
  /\ NodeSeq(StepsOfType(ret.animations, "visit_node")) = <<"A", "B", "D", "C", "E">>

\* ------------------------------------------------------------------------
\* Specification SpecSearch: linearSearch and binarySearch called as pure
\* functions.  handleSearch hands binarySearch an ascending array only, so
\* binarySearch is called on the ascending inputs; they reach MaxSearchLen
\* elements, the others MaxLen.
\* ------------------------------------------------------------------------
SearchValues == 0..MaxVal

SearchTargets == (0 - 1)..(MaxVal + 1)

AscendingArrays ==
  UNION {{a \in SeqsOfLen(SearchValues, n) : isArraySorted(a, "ascending")} :
           n \in 2..MaxSearchLen}

SearchArrays ==
  UNION {SeqsOfLen(SearchValues, n) : n \in 2..MaxLen} \cup AscendingArrays

InitSearch ==
  /\ call \in {[fn |-> "input", array |-> a, target |-> t] :
                 a \in SearchArrays, t \in SearchTargets}
  /\ ret = NoRet
  /\ AppIdle

CallLinearSearch ==
  /\ call.fn = "input"
  /\ call' = [call EXCEPT !.fn = "linearSearch"]
  /\ ret' = [fn |-> "linearSearch",
             animations |-> linearSearch(call.array, call.target).animations]
  /\ UNCHANGED appVars

CallBinarySearch ==
  /\ call.fn = "input"
  /\ isArraySorted(call.array, "ascending")
  /\ call' = [call EXCEPT !.fn = "binarySearch"]
  /\ ret' = [fn |-> "binarySearch",
             animations |-> binarySearch(call.array, call.target).animations]
  /\ UNCHANGED appVars

NextSearch ==
  \/ CallLinearSearch
  \/ CallBinarySearch

SpecSearch == InitSearch /\ [][NextSearch]_vars

\* floor(log2 n) and ceil(log2 n) for n >= 1
RECURSIVE FloorLog2(_)
FloorLog2(n) == IF n <= 1 THEN 0 ELSE 1 + FloorLog2(n \div 2)

CeilLog2(n) == IF n <= 1 THEN 0 ELSE 1 + FloorLog2(n - 1)

CountOfTypes(an, types) == Cardinality({i \in 1..Len(an) : an[i].type \in types})

RangeEvents(an) == CountOfTypes(an, {"compare_range", "compare", "adjust_range"})

\* C12: on an ascending sequence of length n the binarySearch trace has at
\* most ceil(log2 n) + 2 Steps of kind compare_range, compare and
\* adjust_range.
C12_BinarySearchEventBound ==
  ret.fn = "binarySearch" =>
    RangeEvents(ret.animations) <= CeilLog2(Len(call.array)) + 2

\* C12 as amended: the trace has at most floor(log2 n) + 1 compare Steps
\* (which is at most ceil(log2 n) + 2), and at most 3 * (floor(log2 n) + 1)
\* Steps of kind compare_range, compare and adjust_range together.
C12_BinarySearchIterationBound ==
  ret.fn = "binarySearch" =>
    /\ CountOfTypes(ret.animations, {"compare"}) <= FloorLog2(Len(call.array)) + 1
    /\ CountOfTypes(ret.animations, {"compare"}) <= CeilLog2(Len(call.array)) + 2
    /\ RangeEvents(ret.animations) <= 3 * (FloorLog2(Len(call.array)) + 1)

\* A search of eight elements that needs all four iterations
C12_Witness ==
  /\ ret.fn = "binarySearch"
  /\ Len(call.array) = 8
  /\ CountOfTypes(ret.animations, {"compare"}) = 4
  /\ RangeEvents(ret.animations) = 12

\* The range the iteration after one on [low, high] works on, by the
\* comparison of the middle element with the target
NarrowedRange(arr, target, low, high) ==
  LET mid == (low + high) \div 2
  IN IF arr[mid + 1] < target THEN <<mid + 1, high>> ELSE <<low, mid - 1>>

\* C23: on every ascending array and every integer target, each iteration
\* of binarySearch emits a compare_range Step on [low, high] followed by a
\* compare Step on mid = floor((low + high) / 2), the ranges being the
\* whole array first and the half kept by the comparison afterwards; the
\* trace ends with a found Step naming an index that holds the target if
\* and only if the target occurs in the array, and with not_found otherwise.
C23_BinarySearchTrace ==
  ret.fn = "binarySearch" =>
    LET an     == ret.animations
        arr    == call.array
        target == call.target
        n      == Len(an)
        occurs == \E i \in 1..Len(arr) : arr[i] = target
    IN /\ n >= 1
       /\ an[n].type = IF occurs THEN "found" ELSE "not_found"
       /\ \A k \in 1..(n - 1) : an[k].type \notin {"found", "not_found"}
       /\ an[n].type = "found" =>
            /\ Len(an[n].indices) = 1
            /\ an[n].indices[1] \in 0..(Len(arr) - 1)
            /\ arr[an[n].indices[1] + 1] = target
       /\ Len(arr) > 0 => an[1] = Step("compare_range", <<0, Len(arr) - 1>>, <<>>)
       /\ \A k \in 1..n :
            an[k].type = "compare_range" =>
              LET low  == an[k].indices[1]
                  high == an[k].indices[2]
                  mid  == (low + high) \div 2
              IN /\ 0 <= low /\ low <= high /\ high < Len(arr)
                 /\ k + 2 <= n
                 /\ an[k + 1].type = "compare"
                 /\ an[k + 1].indices = <<mid>>
                 /\ IF arr[mid + 1] = target
                    THEN an[k + 2].type = "found" /\ an[k + 2].indices = <<mid>>
                    ELSE /\ an[k + 2].type = "adjust_range"
                         /\ k + 3 <= n
                         /\ LET next == NarrowedRange(arr, target, low, high)
                            IN IF next[1] <= next[2]
                               THEN an[k + 3] = Step("compare_range", next, <<>>)
                               ELSE an[k + 3].type = "not_found"
       /\ \A k \in 1..n :
            an[k].type = "compare" => k > 1 /\ an[k - 1].type = "compare_range"

\* Three iterations on <<0, 1, 2, 3>> for target 3: ranges [0, 3], [2, 3]
\* and [3, 3], found at index 3
C23_Witness ==
  /\ ret.fn = "binarySearch"
  /\ call.array = <<0, 1, 2, 3>>
  /\ call.target = 3
  /\ Len(ret.animations) = 9
  /\ ret.animations[7].indices = <<3, 3>>
  /\ ret.animations[9].type = "found"
  /\ ret.animations[9].indices = <<3>>

\* ------------------------------------------------------------------------
\* Specification SpecTree: a tree built by buildTree's loop of insert, then
\* one of the three traversals called as a pure function
\* ------------------------------------------------------------------------
ExampleTreeValues == <<50, 25, 75, 10>>

TreeInputs ==
  UNION {SeqsOfLen(0..MaxVal, n) : n \in 1..MaxLen} \cup {ExampleTreeValues}

InitTree ==
  /\ call \in {[fn |-> "input", values |-> v] : v \in TreeInputs}
  /\ ret = NoRet
  /\ AppIdle

TraversalResult(fn, tree, an) == [fn |-> fn, tree |-> tree, animations |-> an]

CallInOrderTraversal ==
  /\ call.fn = "input"
  /\ call' = [call EXCEPT !.fn = "inOrderTraversal"]
  /\ LET tree == insertAll(<<>>, call.values, 1)
     IN ret' = TraversalResult("inOrderTraversal", tree, inOrderTraversal(tree, 1, <<>>))
  /\ UNCHANGED appVars

CallPreOrderTraversal ==
  /\ call.fn = "input"
  /\ call' = [call EXCEPT !.fn = "preOrderTraversal"]
  /\ LET tree == insertAll(<<>>, call.values, 1)
     IN ret' = TraversalResult("preOrderTraversal", tree, preOrderTraversal(tree, 1, <<>>))
  /\ UNCHANGED appVars

CallPostOrderTraversal ==
  /\ call.fn = "input"
  /\ call' = [call EXCEPT !.fn = "postOrderTraversal"]
  /\ LET tree == insertAll(<<>>, call.values, 1)
     IN ret' = TraversalResult("postOrderTraversal", tree, postOrderTraversal(tree, 1, <<>>))
  /\ UNCHANGED appVars

\* The values searched for: every value of the inputs, one below and one
\* above them, and the values of the example
SearchedValues == ((0 - 1)..(MaxVal + 1)) \cup SeqRange(ExampleTreeValues)

CallSearch ==
  /\ call.fn = "input"
  /\ call' = [call EXCEPT !.fn = "search"]
  /\ \E value \in SearchedValues :
       LET tree == insertAll(<<>>, call.values, 1)
       IN ret' = [fn |-> "search", tree |-> tree, value |-> value,
                  animations |-> search(tree, value)]
  /\ UNCHANGED appVars

NextTree ==
  \/ CallInOrderTraversal
  \/ CallPreOrderTraversal
  \/ CallPostOrderTraversal
  \/ CallSearch

SpecTree == InitTree /\ [][NextTree]_vars

\* The nodes of the subtree rooted at n (none for the null link 0)
RECURSIVE Subtree(_, _)
Subtree(tree, n) ==
  IF n = 0 THEN {}
  ELSE {n} \cup Subtree(tree, tree[n].left) \cup Subtree(tree, tree[n].right)

\* The orders in which the nodes of the tree can be visited once each
Positions(tree) ==
  {f \in [1..Len(tree) -> 1..Len(tree)] :
     \A a, b \in 1..Len(tree) : f[a] = f[b] => a = b}

\* pos puts every left subtree before its root and every right subtree after
LeftRootRight(tree, pos) ==
  \A n \in 1..Len(tree) :
    /\ \A l \in Subtree(tree, tree[n].left) : pos[l] < pos[n]
    /\ \A r \in Subtree(tree, tree[n].right) : pos[n] < pos[r]

RootLeftRight(tree, pos) ==
  \A n \in 1..Len(tree) :
    /\ \A l \in Subtree(tree, tree[n].left) : pos[n] < pos[l]
    /\ \A r \in Subtree(tree, tree[n].right) :
         pos[n] < pos[r] /\ \A l \in Subtree(tree, tree[n].left) : pos[l] < pos[r]

LeftRightRoot(tree, pos) ==
  \A n \in 1..Len(tree) :
    /\ \A l \in Subtree(tree, tree[n].left) : pos[l] < pos[n]
    /\ \A r \in Subtree(tree, tree[n].right) :
         pos[r] < pos[n] /\ \A l \in Subtree(tree, tree[n].left) : pos[l] < pos[r]

\* The trace is one visit Step per node, the node at position pos[n] being n
VisitsInOrderOf(an, tree, pos) ==
  /\ Len(an) = Len(tree)
  /\ \A n \in 1..Len(tree) :
       /\ an[pos[n]].type = "visit"
       /\ an[pos[n]].node = tree[n].value
       /\ an[pos[n]].pathAdd = tree[n].value

VisitedValues(an) == [i \in 1..Len(an) |-> an[i].node]

\* C14: on a tree built by inserting a list of values in order, each
\* traversal emits one visit Step per node: inOrderTraversal in
\* left-root-right order (so the visited values are non-decreasing),
\* preOrderTraversal in root-left-right order, postOrderTraversal in
\* left-right-root order; [50, 25, 75, 10] gives in-order [10, 25, 50, 75]
\* and pre-order [50, 25, 10, 75].
C14_TraversalOrders ==
  /\ ret.fn = "inOrderTraversal" =>
       /\ \E pos \in Positions(ret.tree) :
            LeftRootRight(ret.tree, pos) /\ VisitsInOrderOf(ret.animations, ret.tree, pos)
       /\ \A i \in 2..Len(ret.animations) :
            ret.animations[i - 1].node <= ret.animations[i].node
       /\ call.values = ExampleTreeValues =>
            VisitedValues(ret.animations) = <<10, 25, 50, 75>>
  /\ ret.fn = "preOrderTraversal" =>
       /\ \E pos \in Positions(ret.tree) :
            RootLeftRight(ret.tree, pos) /\ VisitsInOrderOf(ret.animations, ret.tree, pos)
       /\ call.values = ExampleTreeValues =>
            VisitedValues(ret.animations) = <<50, 25, 10, 75>>
  /\ ret.fn = "postOrderTraversal" =>
       \E pos \in Positions(ret.tree) :
         LeftRightRoot(ret.tree, pos) /\ VisitsInOrderOf(ret.animations, ret.tree, pos)

C14_Witness ==
  /\ ret.fn = "inOrderTraversal"
  /\ call.values = ExampleTreeValues
  /\ VisitedValues(ret.animations) = <<10, 25, 50, 75>>


\* The nodes from the root down to node n, n included
RECURSIVE PathTo(_, _)
PathTo(tree, n) ==
  IF n = 1 THEN <<1>>
  ELSE LET parent == CHOOSE p \in 1..Len(tree) : tree[p].left = n \/ tree[p].right = n
       IN Append(PathTo(tree, parent), n)

\* The descent for a value: down to the first node inserted with it, or,
\* when no node holds it, down to the node under which it would be inserted
Descent(tree, value) ==
  LET holders == {n \in 1..Len(tree) : tree[n].value = value}
  IN IF holders # {}
     THEN PathTo(tree, CHOOSE n \in holders : \A m \in holders : n <= m)
     ELSE LET grown == insert(tree, value)
              path  == PathTo(grown, Len(grown))
          IN SubSeq(path, 1, Len(path) - 1)

\* Left subtrees hold only smaller values, right subtrees only
\* greater-or-equal ones
SearchTreeOrdered(tree) ==
  \A n \in 1..Len(tree) :
    /\ \A m \in Subtree(tree, tree[n].left)  : tree[m].value < tree[n].value
    /\ \A m \in Subtree(tree, tree[n].right) : tree[m].value >= tree[n].value

\* C24: a tree built by repeated insert is ordered (duplicates to the
\* right), and search(value) on it emits one highlight Step per node of the
\* descent from the root, in order, and then a single final Step: found if
\* and only if the value was inserted, not_found otherwise.
C24_SearchFollowsDescent ==
  ret.fn = "search" =>
    LET an       == ret.animations
        tree     == ret.tree
        path     == Descent(tree, ret.value)
        inserted == \E i \in 1..Len(call.values) : call.values[i] = ret.value
    IN /\ SearchTreeOrdered(tree)
       /\ Len(tree) = Len(call.values)
       /\ Len(an) = Len(path) + 1
       /\ \A k \in 1..Len(path) :
            an[k].type = "highlight" /\ an[k].node = tree[path[k]].value
       /\ an[Len(an)].type = IF inserted THEN "found" ELSE "not_found"
       /\ inserted => an[Len(an)].node = ret.value

\* Searching 10 in the example tree: 50, 25, 10, found
C24_Witness ==
  /\ ret.fn = "search"
  /\ call.values = ExampleTreeValues
  /\ ret.value = 10
  /\ [k \in 1..Len(ret.animations) |-> ret.animations[k].type]
       = <<"highlight", "highlight", "highlight", "found">>
  /\ [k \in 1..3 |-> ret.animations[k].node] = <<50, 25, 10>>
\* ------------------------------------------------------------------------
\* Specification SpecList: a list built by buildList's loop of insert under
\* the list type selected at that time, then any number of deleteNode calls,
\* each under the list type selected when it is made
\* ------------------------------------------------------------------------
ExampleListValues == <<10, 20, 30>>

ListInputs ==
  UNION {SeqsOfLen(1..MaxVal, n) : n \in 1..MaxLen} \cup {ExampleListValues}

DeleteValues == (1..(MaxVal + 1)) \cup {ExampleListValues[1]}

InitList ==
  /\ call \in {[fn |-> "input", values |-> v, listType |-> t] :
                 v \in ListInputs, t \in ListTypes}
  /\ ret = NoRet
  /\ AppIdle

CallBuildList ==
  /\ call.fn = "input"
  /\ call' = [call EXCEPT !.fn = "buildList"]
  /\ ret' = [fn |-> "buildList",
             list |-> listInsertAll(NullList, call.values, call.listType, 1)]
  /\ UNCHANGED appVars

CallDeleteNode ==
  /\ ret.fn \in {"buildList", "deleteNode"}
  /\ \E value \in DeleteValues, listType \in ListTypes :
       LET d == deleteNode(ret.list, value, listType)
       IN ret' = [fn |-> "deleteNode", before |-> ret.list, value |-> value,
                  listType |-> listType, list |-> d.list, animations |-> d.animations]
  /\ UNCHANGED call
  /\ UNCHANGED appVars

NextList ==
  \/ CallBuildList
  \/ CallDeleteNode

SpecList == InitList /\ [][NextList]_vars

\* The values of the list from the node n on, following the forward links
RECURSIVE ValuesFrom(_, _)
ValuesFrom(nodes, n) ==
  IF n = 0 THEN <<>> ELSE <<nodes[n].value>> \o ValuesFrom(nodes, nodes[n].next)

ListValuesOf(list) == ValuesFrom(list.nodes, list.head)

\* The nodes of the list from the node n on
RECURSIVE NodesFrom(_, _)
NodesFrom(nodes, n) ==
  IF n = 0 THEN {} ELSE {n} \cup NodesFrom(nodes, nodes[n].next)

\* q without its first element equal to v
RemoveFirst(q, v) ==
  LET k == CHOOSE i \in 1..Len(q) : q[i] = v /\ \A j \in 1..(i - 1) : q[j] # v
  IN SubSeq(q, 1, k - 1) \o SubSeq(q, k + 1, Len(q))

\* C16: deleteNode removes exactly the first node holding the value and
\* keeps the other nodes in their order; deleting the head of the doubly
\* linked list [10, 20, 30] leaves [20, 30] with head 20 whose backward link
\* is empty; for a value that is not in the list the trace ends with a
\* not_found Step and the list is left as it was.
C16_DeleteFirstOccurrence ==
  ret.fn = "deleteNode" =>
    LET before == ListValuesOf(ret.before)
        after  == ListValuesOf(ret.list)
        last   == ret.animations[Len(ret.animations)]
    IN /\ ret.value \in SeqRange(before) =>
            /\ after = RemoveFirst(before, ret.value)
            /\ last.type \in {"delete_head", "delete"}
            /\ last.node = ret.value
       /\ ret.value \notin SeqRange(before) =>
            /\ last.type = "not_found"
            /\ ret.list = ret.before
       /\ (/\ before = ExampleListValues
           /\ call.listType = "doublyLinkedList"
           /\ ret.listType = "doublyLinkedList"
           /\ ret.value = 10) =>
            /\ after = <<20, 30>>
            /\ ret.list.nodes[ret.list.head].value = 20
            /\ ret.list.nodes[ret.list.head].prev = 0

\* The second of two equal values stays when the first, an interior node, is
\* deleted
C16_Witness ==
  /\ ret.fn = "deleteNode"
  /\ ListValuesOf(ret.before) = <<1, 2, 3, 2>>
  /\ ret.value = 2
  /\ ListValuesOf(ret.list) = <<1, 3, 2>>

\* The backward links agree with the forward links
BackwardConsistent(list) ==
  /\ list.head # 0 => list.nodes[list.head].prev = 0
  /\ \A n \in NodesFrom(list.nodes, list.head) :
       list.nodes[n].next # 0 => list.nodes[list.nodes[n].next].prev = n

\* C17: a list built as doubly linked keeps its backward links consistent
\* with its forward links through every sequence of deletes, whatever list
\* type is selected when each delete is made.
C17_BackwardLinksConsistent ==
  (call.listType = "doublyLinkedList" /\ ret.fn \in {"buildList", "deleteNode"})
    => BackwardConsistent(ret.list)

\* ---------------------------------------------------------------------
\* The playback delay as a function of the speed slider
\* ---------------------------------------------------------------------

\* The slider's range: min={MIN_DELAY} max={MAX_DELAY}
SliderValues == MIN_DELAY..MAX_DELAY

InitDelay ==
  /\ call \in {[fn |-> "input", speed |-> v] : v \in SliderValues}
  /\ ret = NoRet
  /\ AppIdle

\* runAnimationStep computes the delay of the next timer from the slider
CallDelay ==
  /\ call.fn = "input"
  /\ call' = [call EXCEPT !.fn = "delay"]
  /\ ret' = [fn |-> "delay", delay |-> Delay(call.speed)]
  /\ UNCHANGED appVars

NextDelay == CallDelay

SpecDelay == InitDelay /\ [][NextDelay]_vars

\* C20: for every speed in [MIN_DELAY, MAX_DELAY] = [10, 3000] the delay
\* MAX_DELAY - speed + MIN_DELAY lies in [10, 3000], and it is strictly
\* smaller than that delay for every larger speed of the range.
C20_DelayInRangeAndDecreasing ==
  ret.fn = "delay" =>
    /\ MIN_DELAY = 10 /\ MAX_DELAY = 3000
    /\ ret.delay \in 10..3000
    /\ \A faster \in SliderValues :
         faster > call.speed => Delay(faster) < ret.delay

C20_Witness ==
  /\ ret.fn = "delay"
  /\ call.speed = InitialSpeed
  /\ ret.delay = 2510

\* ------------------------------------------------------------------------
\* Specification SpecBuild: buildAdjacencyList called as a pure function on
\* an edge list and a weight list that are independent of each other, as
\* the two text inputs of the graph visualizer are.
\* ------------------------------------------------------------------------

\* Edge tokens u-v in either orientation, self-loops included
EdgeTokens == Labels \X Labels

\* Weight tokens u-v:w among the labels typed into the application
WeightTokens == {<<u, v, w>> : u \in AppLabels, v \in AppLabels, w \in Weights}

EdgeLists == UNION {SeqsOfLen(EdgeTokens, n) : n \in 1..MaxEdges}

WeightLists == UNION {SeqsOfLen(WeightTokens, n) : n \in 0..2}

InitBuild ==
  /\ call \in {[fn |-> "input", edges |-> e, weights |-> w] :
                 e \in EdgeLists, w \in WeightLists}
  /\ ret = NoRet
  /\ AppIdle

CallBuildAdjacencyList ==
  /\ call.fn = "input"
  /\ call' = [call EXCEPT !.fn = "buildAdjacencyList"]
  /\ ret' = [fn |-> "buildAdjacencyList",
             res |-> buildAdjacencyList(call.edges, call.weights)]
  /\ UNCHANGED appVars

NextBuild == CallBuildAdjacencyList

SpecBuild == InitBuild /\ [][NextBuild]_vars

\* How often x occurs in the sequence q
Occurrences(q, x) == Cardinality({i \in 1..Len(q) : q[i] = x})

\* The labels of an edge list in the order they are written
LabelsWritten(edges) ==
  [i \in 1..(2 * Len(edges)) |-> edges[(i + 1) \div 2][IF i % 2 = 1 THEN 1 ELSE 2]]

FirstPosition(q, x) == CHOOSE i \in 1..Len(q) : q[i] = x /\ \A j \in 1..(i - 1) : q[j] # x

\* The tokens of a weight list that name the unordered pair {u, v}
TokensFor(weights, u, v) ==
  {k \in 1..Len(weights) :
     \/ weights[k][1] = u /\ weights[k][2] = v
     \/ weights[k][1] = v /\ weights[k][2] = u}

\* C25: buildAdjacencyList yields a bidirectional adjacency mapping (v
\* occurs in the neighbour list of u exactly as often as u occurs in that of
\* v: once per edge token of the pair, twice for a token u-u), a weight
\* mapping that gives both directions of every weighted pair the same
\* weight (that of the pair's last token), and a node order equal to the
\* first-seen order of the labels in the edge list.
C25_BuildAdjacencyList ==
  ret.fn = "buildAdjacencyList" =>
    LET adj     == ret.res.newAdjList
        ew      == ret.res.newEdgeWeights
        written == LabelsWritten(call.edges)
    IN /\ DOMAIN adj.nbrs = SeqRange(written)
       /\ \A u, v \in DOMAIN adj.nbrs :
            /\ Occurrences(adj.nbrs[u], v) = Occurrences(adj.nbrs[v], u)
            /\ Occurrences(adj.nbrs[u], v) =
                 Occurrences(call.edges, <<u, v>>) + Occurrences(call.edges, <<v, u>>)
       /\ SeqRange(adj.keys) = SeqRange(written)
       /\ \A i, j \in 1..Len(adj.keys) :
            i < j => FirstPosition(written, adj.keys[i]) < FirstPosition(written, adj.keys[j])
       /\ DOMAIN ew = {<<u, v>> \in Labels \X Labels : TokensFor(call.weights, u, v) # {}}
       /\ \A p \in DOMAIN ew :
            LET ks == TokensFor(call.weights, p[1], p[2])
            IN /\ <<p[2], p[1]>> \in DOMAIN ew
               /\ ew[p] = ew[<<p[2], p[1]>>]
               /\ ew[p] = call.weights[CHOOSE k \in ks : \A j \in ks : j <= k][3]

\* Edges C-A, B-A with weights A-B:0 then B-A:MaxW: node order C, A, B, and
\* both directions of the pair weigh MaxW
C25_Witness ==
  /\ ret.fn = "buildAdjacencyList"
  /\ call.edges = <<<<"C", "A">>, <<"B", "A">>>>
  /\ call.weights = <<<<"A", "B", 0>>, <<"B", "A", MaxW>>>>
  /\ ret.res.newAdjList.keys = <<"C", "A", "B">>
  /\ ret.res.newAdjList.nbrs["A"] = <<"C", "B">>
  /\ ret.res.newEdgeWeights[<<"A", "B">>] = MaxW
  /\ ret.res.newEdgeWeights[<<"B", "A">>] = MaxW

====
